---- MODULE Spec2Model ----
(***************************************************************************)
(* A model of connmanager: the SQLite record store                         *)
(* (src/connmanager/database_connection.py), the protocol handler registry *)
(* (src/connmanager/connection_handler.py) and the connection service      *)
(* (src/connmanager/connection_service.py).                                *)
(*                                                                         *)
(* Values.  Python and SQLite values are tagged tuples, so that values of  *)
(* different types can be compared:                                        *)
(*   <<"none">>        None / NULL                                         *)
(*   <<"str", cs>>     a str / TEXT value, cs its sequence of characters   *)
(*   <<"int", n>>      an int / INTEGER value                              *)
(*   <<"dict", ps>>    a dict, ps its sequence of <<key, value>> items     *)
(*   <<"json", v>>     the str that json.dumps(v) returns                  *)
(*   <<"fernet", k, cs>>  the str that Fernet(k).encrypt(cs) returns       *)
(* A character is a one-character string.                                  *)
(***************************************************************************)
EXTENDS Integers, Sequences, FiniteSets, TLC

VARIABLES store, registry, keyfile, tui, last

vars == <<store, registry, keyfile, tui, last>>

(***************************************************************************)
(* Bounds of the model.                                                    *)
(***************************************************************************)
\* the largest rowid the store hands out
MaxId == 2

(***************************************************************************)
(* Characters and strings.                                                 *)
(***************************************************************************)
None == <<"none">>
StrV(cs) == <<"str", cs>>
IntV(n) == <<"int", n>>
DictV(ps) == <<"dict", ps>>

IsNone(v) == v[1] = "none"
IsStr(v) == v[1] = "str"
IsInt(v) == v[1] = "int"
IsDict(v) == v[1] = "dict"
\* isinstance(v, str): plain text, JSON text and Fernet tokens are all str
IsText(v) == v[1] \in {"str", "json", "fernet"}

UpperCase == <<"A","B","C","D","E","F","G","H","I","J","K","L","M",
               "N","O","P","Q","R","S","T","U","V","W","X","Y","Z">>
LowerCase == <<"a","b","c","d","e","f","g","h","i","j","k","l","m",
               "n","o","p","q","r","s","t","u","v","w","x","y","z">>
Digits == <<"0","1","2","3","4","5","6","7","8","9">>

\* str.lower() / SQLite's ASCII case folding, on one character
LowerChar(c) ==
    IF \E i \in 1..26 : UpperCase[i] = c
    THEN LowerCase[CHOOSE i \in 1..26 : UpperCase[i] = c]
    ELSE c

\* str.lower()
LowerOf(cs) == [i \in 1..Len(cs) |-> LowerChar(cs[i])]

IsDigitChar(c) == \E i \in 1..10 : Digits[i] = c
DigitVal(c) == (CHOOSE i \in 1..10 : Digits[i] = c) - 1

\* str.isdigit(): non-empty and every character a digit
IsDigitStr(cs) == Len(cs) > 0 /\ \A i \in 1..Len(cs) : IsDigitChar(cs[i])

RECURSIVE DigitsValue(_)
\* int(cs) for a string of digits
DigitsValue(cs) ==
    IF cs = <<>> THEN 0
    ELSE 10 * DigitsValue(SubSeq(cs, 1, Len(cs) - 1)) + DigitVal(cs[Len(cs)])

RECURSIVE IntToChars(_)
\* str(n) for n >= 0
IntToChars(n) ==
    IF n < 10 THEN <<Digits[n + 1]>>
    ELSE Append(IntToChars(n \div 10), Digits[(n % 10) + 1])

\* Python's `sub in cs`
Contains(cs, sub) ==
    \E i \in 0..(Len(cs) - Len(sub)) : SubSeq(cs, i + 1, i + Len(sub)) = sub

(***************************************************************************)
(* SQLite: type affinity, comparison and LIKE.                             *)
(***************************************************************************)
\* The position of the decimal point in cs, 0 when there is none.
DotAt(cs) ==
    IF \E i \in 1..Len(cs) : cs[i] = "."
    THEN CHOOSE i \in 1..Len(cs) : cs[i] = "." /\ \A j \in 1..(i - 1) : cs[j] # "."
    ELSE 0

\* cs is a numeric literal with an integer value, of the forms this model
\* covers: digits, or digits "." zeros (SQLite also accepts signs, blanks
\* around the literal and exponents; the model's strings hold none).
IsIntegerLiteral(cs) ==
    LET d == DotAt(cs) IN
    IF d = 0 THEN IsDigitStr(cs)
    ELSE /\ IsDigitStr(SubSeq(cs, 1, d - 1))
         /\ \A i \in (d + 1)..Len(cs) : cs[i] = "0"

IntegerLiteralValue(cs) ==
    LET d == DotAt(cs) IN
    IF d = 0 THEN DigitsValue(cs) ELSE DigitsValue(SubSeq(cs, 1, d - 1))

\* What a column of INTEGER affinity stores for a bound value: text that is
\* a well-formed integer literal is converted to the integer.
IntegerAffinity(v) ==
    IF IsStr(v) /\ IsIntegerLiteral(v[2]) THEN IntV(IntegerLiteralValue(v[2]))
    ELSE v

\* What a column of TEXT affinity stores: a number is converted to its text.
TextAffinity(v) == IF IsInt(v) THEN StrV(IntToChars(v[2])) ELSE v

RECURSIVE LikeMatch(_, _)
\* cs LIKE pat: % matches any run of characters, _ any one character, any
\* other character itself without regard to ASCII letter case.
LikeMatch(pat, cs) ==
    IF pat = <<>> THEN cs = <<>>
    ELSE IF Head(pat) = "%"
         THEN LikeMatch(Tail(pat), cs) \/ (cs # <<>> /\ LikeMatch(pat, Tail(cs)))
    ELSE IF cs = <<>> THEN FALSE
    ELSE IF Head(pat) = "_" THEN LikeMatch(Tail(pat), Tail(cs))
    ELSE LowerChar(Head(pat)) = LowerChar(Head(cs)) /\ LikeMatch(Tail(pat), Tail(cs))

\* column LIKE pattern: NULL LIKE p is NULL, which a WHERE clause rejects
ColumnLike(v, pat) == IsStr(v) /\ LikeMatch(pat, v[2])

(***************************************************************************)
(* Python values: truthiness and the json module.                          *)
(***************************************************************************)
\* bool(v)
Truthy(v) ==
    IF IsNone(v) THEN FALSE
    ELSE IF IsStr(v) \/ IsDict(v) THEN v[2] # <<>>
    ELSE IF IsInt(v) THEN v[2] # 0
    ELSE TRUE

\* json.dumps(v): a str that json.loads turns back into v
JsonDumps(v) == <<"json", v>>

\* json.loads(t) succeeds on the text json.dumps wrote
JsonLoadable(t) == t[1] = "json"
JsonLoads(t) == t[2]

EmptyDict == DictV(<<>>)

(***************************************************************************)
(* The connections table (database_connection.py, create_table).           *)
(* A row is a record of the twelve columns; the table is a set of rows.    *)
(***************************************************************************)
Columns == {"alias", "protocol", "host_or_ip", "port", "username", "password",
            "ssh_key_path", "domain", "resolution", "tag", "extras"}

\* alias TEXT UNIQUE NOT NULL, protocol TEXT NOT NULL, host_or_ip TEXT NOT NULL
NotNullColumns == {"alias", "protocol", "host_or_ip"}

\* port INTEGER; every other data column is TEXT
ColumnAffinity(col, v) ==
    IF col = "port" THEN IntegerAffinity(v) ELSE TextAffinity(v)

\* sqlite3 binds None, int and str parameters; a dict is not supported
Bindable(v) == ~IsDict(v)

RowIds(rows) == {r.id : r \in rows}

\* id INTEGER PRIMARY KEY: a new row gets the largest rowid plus one
NewRowid(rows) ==
    IF rows = {} THEN 1
    ELSE (CHOOSE m \in RowIds(rows) : \A i \in RowIds(rows) : i <= m) + 1

\* WHERE alias = ?  (TEXT affinity is applied to the bound value)
AliasEquals(row, x) == row.alias = TextAffinity(x)

\* WHERE id = ?  (numeric affinity is applied to a bound text)
IdEquals(row, x) ==
    LET y == IntegerAffinity(x) IN IsInt(y) /\ y[2] = row.id

\* WHERE alias = ? OR id = ?
AliasOrIdMatches(rows, x) == {r \in rows : AliasEquals(r, x) \/ IdEquals(r, x)}

\* The constraint an INSERT or UPDATE of `row` violates in table `others`.
ConstraintError(row, others) ==
    IF \E c \in NotNullColumns : IsNone(row[c]) THEN "NOT NULL constraint failed"
    ELSE IF \E o \in others : o.alias = row.alias THEN "UNIQUE constraint failed"
    ELSE IF \E o \in others : o.id = row.id THEN "UNIQUE constraint failed"
    ELSE "none"

\* StatementOutcome without the back-out: what a failed statement wrote stays
StatementOutcomeKeepingWrites(before, attempt) == attempt

\* A statement that fails is backed out whole (SQLite's ABORT resolution,
\* then conn.rollback()); one that succeeds is committed.
StatementOutcome(before, attempt) ==
    IF attempt.error # "none" THEN [rows |-> before, error |-> attempt.error]
    ELSE attempt

\* INSERT INTO connections (...) VALUES (...)
InsertAttempt(rows, kw) ==
    LET row == [c \in Columns \cup {"id"} |->
                  IF c = "id" THEN NewRowid(rows) ELSE ColumnAffinity(c, kw[c])]
        err == IF \E c \in Columns : ~Bindable(kw[c]) THEN "type is not supported"
               ELSE ConstraintError(row, rows)
    IN IF err # "none" THEN [rows |-> rows, error |-> err]
       ELSE [rows |-> rows \cup {row}, error |-> "none"]

\* DatabaseConnection.add_connection: the error is logged, never raised.
add_connection(rows, kw) ==
    LET extras_json == IF Truthy(kw.extras) THEN JsonDumps(kw.extras)
                       ELSE JsonDumps(EmptyDict)
        done == StatementOutcome(rows,
                    InsertAttempt(rows, [kw EXCEPT !.extras = extras_json]))
    IN [rows |-> done.rows, error |-> done.error, raised |-> "none"]

\* DatabaseConnection.delete_connection
delete_connection(rows, x) ==
    [rows |-> rows \ AliasOrIdMatches(rows, x), error |-> "none", raised |-> "none"]

\* UpdatedRow as a full replace: a nullable column that is not named is reset
UpdatedRowReplacing(row, kw) ==
    [c \in DOMAIN row |->
        IF c \in DOMAIN kw
        THEN (IF c = "id" THEN kw[c][2] ELSE ColumnAffinity(c, kw[c]))
        ELSE IF c \in NotNullColumns \cup {"id"} THEN row[c]
        ELSE None]

\* The row an UPDATE writes for `row`: the named columns take the new values.
UpdatedRow(row, kw) ==
    [c \in DOMAIN row |->
        IF c \in DOMAIN kw
        THEN (IF c = "id" THEN kw[c][2] ELSE ColumnAffinity(c, kw[c]))
        ELSE row[c]]

RECURSIVE UpdateRows(_, _, _)
\* UPDATE connections SET ... over the matching rowids `ids`, one row after
\* another in rowid order; it stops at the first row that violates a constraint.
UpdateRows(rows, ids, kw) ==
    IF ids = {} THEN [rows |-> rows, error |-> "none"]
    ELSE LET i == CHOOSE m \in ids : \A j \in ids : m <= j
             old == CHOOSE r \in rows : r.id = i
             new == UpdatedRow(old, kw)
             err == ConstraintError(new, rows \ {old})
         IN IF err # "none" THEN [rows |-> rows, error |-> err]
            ELSE UpdateRows((rows \ {old}) \cup {new}, ids \ {i}, kw)

\* cursor.execute(f"UPDATE connections SET {set_clause} WHERE alias = ? OR id = ?")
UpdateAttempt(rows, x, kw) ==
    IF DOMAIN kw = {} THEN [rows |-> rows, error |-> "syntax error"]
    ELSE IF ~(DOMAIN kw \subseteq Columns \cup {"id"})
         THEN [rows |-> rows, error |-> "no such column"]
    ELSE IF \E c \in DOMAIN kw : ~Bindable(kw[c])
         THEN [rows |-> rows, error |-> "type is not supported"]
    ELSE UpdateRows(rows, RowIds(AliasOrIdMatches(rows, x)), kw)

\* DatabaseConnection.update_connection: extras is serialised when it is a dict
update_connection(rows, x, kw) ==
    LET kw2 == [c \in DOMAIN kw |->
                  IF c = "extras" /\ IsDict(kw[c]) THEN JsonDumps(kw[c]) ELSE kw[c]]
        done == StatementOutcome(rows, UpdateAttempt(rows, x, kw2))
    IN [rows |-> done.rows, error |-> done.error, raised |-> "none"]

\* DatabaseConnection._row_to_connection_details
row_to_connection_details(row) ==
    [alias |-> IF Truthy(row.alias) THEN row.alias ELSE StrV(<<>>),
     protocol |-> IF Truthy(row.protocol) THEN row.protocol ELSE StrV(<<>>),
     host_or_ip |-> IF Truthy(row.host_or_ip) THEN row.host_or_ip ELSE StrV(<<>>),
     port |-> IF IsNone(row.port) \/ row.port = StrV(<<>>) THEN None
              ELSE IF IsInt(row.port) THEN StrV(IntToChars(row.port[2]))
              ELSE row.port,
     username |-> row.username,
     password |-> row.password,
     ssh_key_path |-> row.ssh_key_path,
     domain |-> row.domain,
     resolution |-> row.resolution,
     tag |-> row.tag,
     extras |-> IF IsText(row.extras)
                THEN (IF JsonLoadable(row.extras) THEN JsonLoads(row.extras)
                      ELSE EmptyDict)
                ELSE IF ~Truthy(row.extras) THEN EmptyDict
                ELSE row.extras]

\* DatabaseConnection.get_connection: fetchone() of a query without ORDER BY
\* yields any one of the matching rows; no match gives None (the empty set).
get_connection(rows, x) ==
    {row_to_connection_details(r) : r \in AliasOrIdMatches(rows, x)}

\* DatabaseConnection.get_connection_by_alias: the row, or ValueError
get_connection_by_alias(rows, alias) == {r \in rows : AliasEquals(r, alias)}

\* DatabaseConnection.get_connection_by_id: the row, or ValueError
get_connection_by_id(rows, id) == {r \in rows : r.id = id}

\* DatabaseConnection.alias_exists
alias_exists(rows, alias) == \E r \in rows : AliasEquals(r, alias)

\* SELECT id, alias, protocol, host_or_ip, tag
Projection(row) ==
    [id |-> row.id, alias |-> row.alias, protocol |-> row.protocol,
     host_or_ip |-> row.host_or_ip, tag |-> row.tag]

\* DatabaseConnection.search_connections
search_connections(rows, search_info) ==
    LET search_pattern == <<"%">> \o search_info \o <<"%">> IN
    {Projection(r) : r \in {q \in rows :
        \/ ColumnLike(q.alias, search_pattern)
        \/ ColumnLike(q.host_or_ip, search_pattern)
        \/ ColumnLike(q.username, search_pattern)
        \/ ColumnLike(q.protocol, search_pattern)
        \/ ColumnLike(q.tag, search_pattern)}}

(***************************************************************************)
(* The inputs the model draws from.                                        *)
(***************************************************************************)
s_web1 == <<"w","e","b","1">>
s_db1 == <<"d","b","1">>
s_r3 == <<"r","3">>
s_v5 == <<"v","5">>
s_zz == <<"z","z">>
s_web == <<"w","e","b">>
s_1 == <<"1">>
s_2 == <<"2">>
s_1dot0 == <<"1",".","0">>
s_ssh == <<"s","s","h">>
s_rdp == <<"r","d","p">>
s_vnc == <<"v","n","c">>
s_vmrc == <<"v","m","r","c">>
s_http == <<"h","t","t","p">>
s_h1 == <<"h","1">>
s_h2 == <<"h","2">>
s_ip6 == <<":",":","1">>
s_22 == <<"2","2">>
s_022 == <<"0","2","2">>
s_u == <<"u">>
s_pw == <<"p","w">>
s_prod == <<"p","r","o","d">>
s_lab == <<"l","a","b">>
s_k == <<"k">>
s_v == <<"v">>

\* ConnectionDetails / the keyword arguments of add_connection
Details(alias, protocol, host_or_ip, port, username, password, ssh_key_path, domain, resolution, tag, extras) ==
    [alias |-> alias, protocol |-> protocol, host_or_ip |-> host_or_ip,
     port |-> port, username |-> username, password |-> password,
     ssh_key_path |-> ssh_key_path, domain |-> domain,
     resolution |-> resolution, tag |-> tag, extras |-> extras]

K_web1 == Details(StrV(s_web1), StrV(s_http), StrV(s_h1), None, None, None,
                  None, None, None, StrV(s_prod), EmptyDict)
K_db1 == Details(StrV(s_db1), StrV(s_ssh), StrV(s_h2), StrV(s_22), StrV(s_u),
                 StrV(s_pw), None, None, None, StrV(s_prod),
                 DictV(<< <<s_k, s_v>> >>))
K_r3 == Details(StrV(s_r3), StrV(s_rdp), StrV(s_ip6), StrV(s_022), StrV(s_u),
                StrV(s_pw), None, None, None, None, EmptyDict)
\* an alias made of digits, which a file import hands to the store
K_2 == Details(StrV(s_2), StrV(s_vnc), StrV(s_h1), None, None, None,
               None, None, None, None, EmptyDict)
\* a vmrc record whose URI prompt was left empty
K_v5 == Details(StrV(s_v5), StrV(s_vmrc), None, None, None, None,
                None, None, None, None, EmptyDict)

AddInputs == {K_web1, K_db1, K_r3, K_2, K_v5}

\* alias-or-id arguments of get, update and delete
Identifiers == {StrV(s_web1), StrV(s_db1), StrV(s_1), StrV(s_2), StrV(s_1dot0),
                StrV(s_zz)}

\* keyword arguments of update_connection
U_tag == [tag |-> StrV(s_lab), port |-> StrV(s_022),
          extras |-> DictV(<< <<s_k, s_v>> >>)]
U_alias == [alias |-> StrV(s_db1)]
U_nohost == [host_or_ip |-> None, tag |-> StrV(s_lab)]
U_none == [c \in {} |-> None]

UpdateInputs == {U_tag, U_alias, U_nohost, U_none}

\* arguments of search_connections
SearchInputs == {s_prod, s_web, <<"W","E","B">>, <<"w","_","b">>, <<"%">>, s_zz}

(***************************************************************************)
(* State.                                                                  *)
(*   store     the rows of the connections table                           *)
(*   registry  PROTOCOL_REGISTRY                                           *)
(*   last      the last operation: its name, arguments, the table before   *)
(*             it, what it returned, the error it logged and the exception *)
(*             it raised to its caller; for an operation of the service    *)
(*             also the messages it printed (out), the handlers whose      *)
(*             connect() it invoked (launched) and whether it closed the   *)
(*             store handle (closed)                                       *)
(***************************************************************************)
NoKw == [c \in {} |-> None]

Op(op, x, kw, before, result, error, raised) ==
    [op |-> op, x |-> x, kw |-> kw, before |-> before, result |-> result,
     error |-> error, raised |-> raised,
     out |-> <<>>, launched |-> <<>>, closed |-> FALSE]

(***************************************************************************)
(* The store's operations, called directly.                                *)
(***************************************************************************)
StoreAdd(kw) ==
    /\ NewRowid(store) <= MaxId
    /\ LET r == add_connection(store, kw) IN
       /\ store' = r.rows
       /\ last' = Op("add", kw.alias, kw, store, {}, r.error, r.raised)
    /\ UNCHANGED <<registry, keyfile, tui>>

StoreDelete(x) ==
    /\ LET r == delete_connection(store, x) IN
       /\ store' = r.rows
       /\ last' = Op("delete", x, NoKw, store, {}, r.error, r.raised)
    /\ UNCHANGED <<registry, keyfile, tui>>

StoreUpdate(x, kw) ==
    /\ LET r == update_connection(store, x, kw) IN
       /\ store' = r.rows
       /\ last' = Op("update", x, kw, store, {}, r.error, r.raised)
    /\ UNCHANGED <<registry, keyfile, tui>>

\* get_connection returns one ConnectionDetails ({d}) or None ({})
StoreGet(x) ==
    /\ \E res \in (IF get_connection(store, x) = {} THEN {{}}
                   ELSE {{d} : d \in get_connection(store, x)}) :
          last' = Op("get", x, NoKw, store, res, "none", "none")
    /\ UNCHANGED <<store, registry, keyfile, tui>>

StoreSearch(s) ==
    /\ last' = Op("search", StrV(s), NoKw, store, search_connections(store, s),
                  "none", "none")
    /\ UNCHANGED <<store, registry, keyfile, tui>>

(***************************************************************************)
(* The handler registry (connection_handler.py).                           *)
(***************************************************************************)
\* PROTOCOL_REGISTRY once the module is loaded: the five decorated classes
InitialRegistry ==
    [n \in {s_ssh, s_rdp, s_vmrc, s_vnc, s_http} |->
        IF n = s_ssh THEN "SSHHandler"
        ELSE IF n = s_rdp THEN "RDPHandler"
        ELSE IF n = s_vmrc THEN "VMRCHandler"
        ELSE IF n = s_vnc THEN "VNCHandler"
        ELSE "HTTPHandler"]

\* register_protocol keyed by the name as given, without lower()
register_protocol_as_given(reg, name, cls) ==
    [n \in DOMAIN reg \cup {name} |-> IF n = name THEN cls ELSE reg[n]]

\* register_protocol(name)(cls): PROTOCOL_REGISTRY[name.lower()] = cls
register_protocol(reg, name, cls) ==
    [n \in DOMAIN reg \cup {LowerOf(name)} |->
        IF n = LowerOf(name) THEN cls ELSE reg[n]]

\* PROTOCOL_REGISTRY.get(protocol.lower()): the class ({cls}) or None ({})
handler_class(reg, protocol) ==
    IF LowerOf(protocol) \in DOMAIN reg THEN {reg[LowerOf(protocol)]} ELSE {}

\* connection_handler_factory(protocol, host_or_ip=...)
connection_handler_factory(reg, protocol) ==
    IF handler_class(reg, protocol) = {}
    THEN [handler |-> {}, raised |-> "ValueError: Unsupported protocol"]
    ELSE [handler |-> handler_class(reg, protocol), raised |-> "none"]

s_Telnet == <<"T","e","l","n","e","t">>
s_telnet == <<"t","e","l","n","e","t">>
s_TELNET == <<"T","E","L","N","E","T">>
s_SSH == <<"S","S","H">>
s_Ssh == <<"S","s","h">>
s_sftp == <<"s","f","t","p">>
s_gopher == <<"g","o","p","h","e","r">>

RegisterNames == {s_Telnet, s_TELNET, s_SSH, s_sftp}
RegisterClasses == {"SSHHandler", "HTTPHandler", "ConnectionHandler"}
ResolveNames == {s_ssh, s_SSH, s_Ssh, s_telnet, s_Telnet, s_TELNET, s_sftp,
                 s_http, s_gopher}

Register(name, cls) ==
    /\ registry' = register_protocol(registry, name, cls)
    /\ last' = Op("register", StrV(name), NoKw, {}, {cls}, "none", "none")
    /\ UNCHANGED <<store, keyfile, tui>>

Factory(name) ==
    /\ LET r == connection_handler_factory(registry, name) IN
          last' = Op("factory", StrV(name), NoKw, {}, r.handler, "none", r.raised)
    /\ UNCHANGED <<store, registry, keyfile, tui>>

(***************************************************************************)
(* The secret cipher (encryption_utils.py).                                *)
(***************************************************************************)
\* encrypt(plaintext) under the key file's key: a Fernet token
encrypt(key, plaintext) == <<"fernet", key, plaintext>>

\* v is a token that encrypt produced
IsCiphertext(v) == v[1] = "fernet" /\ v = encrypt(v[2], v[3])

\* the key file does not exist
NoKeyFile == "absent"
\* the keys Fernet.generate_key() can draw
Keys == {"key1", "key2", "key3"}

\* generate_key(): a new key, written over the key file
generate_key(fresh) == [key |-> fresh, keyfile |-> fresh]

\* the key file after open(FERNET_KEY_PATH, "wb") and before the key's bytes
\* reach it: the file exists and holds less than the key
PartialKeyFile == "partial"

\* generate_key() stopped between line 12 and the end of the with block (a
\* signal, a kill, a full disk): the file that open() made is left behind
generate_key_interrupted(fresh) ==
    [key |-> PartialKeyFile, keyfile |-> PartialKeyFile]

\* load_key(): the key in the key file; a missing file is made first
load_key(file, fresh) ==
    IF file = NoKeyFile THEN generate_key(fresh)
    ELSE [key |-> file, keyfile |-> file]

\* get_fernet(): Fernet(key) takes only a whole key
get_fernet(key) ==
    IF key \in Keys THEN "none"
    ELSE "ValueError: Fernet key must be 32 url-safe base64-encoded bytes."

\* decrypt_with_any_key: the plaintext of a token whatever key made it
decrypt_with_any_key(key, ciphertext) ==
    IF ciphertext[1] = "fernet"
    THEN [value |-> ciphertext[3], raised |-> "none"]
    ELSE [value |-> <<>>,
          raised |-> "ValueError: Invalid encryption token or wrong key."]

\* decrypt(ciphertext) under the key file's key: InvalidToken becomes ValueError
decrypt(key, ciphertext) ==
    IF ciphertext[1] = "fernet" /\ ciphertext[2] = key
    THEN [value |-> ciphertext[3], raised |-> "none"]
    ELSE [value |-> <<>>,
          raised |-> "ValueError: Invalid encryption token or wrong key."]

Plaintexts == {s_pw, s_u, s_k, s_web1, s_db1, s_22, s_prod, s_lab}
\* what is handed to decrypt: tokens made under any key, and a str that is none
Ciphertexts == {encrypt(k, s) : k \in Keys, s \in Plaintexts} \cup {StrV(s_pw), StrV(<<>>)}

CipherOp(op, x, key, result, raised) ==
    [op |-> op, x |-> x, key |-> key, result |-> result, raised |-> raised]

GenerateKey(fresh) ==
    /\ keyfile' = generate_key(fresh).keyfile
    /\ last' = CipherOp("generate_key", <<>>, fresh, <<>>, "none")
    /\ UNCHANGED <<store, registry, tui>>

\* load_key() on first use, stopped inside generate_key()
LoadKeyInterrupted(fresh) ==
    /\ keyfile = NoKeyFile
    /\ keyfile' = generate_key_interrupted(fresh).keyfile
    /\ last' = CipherOp("load_key", <<>>, PartialKeyFile, <<>>, "KeyboardInterrupt")
    /\ UNCHANGED <<store, registry, tui>>

Encrypt(plaintext, fresh) ==
    /\ LET k == load_key(keyfile, fresh) IN
       /\ keyfile' = k.keyfile
       /\ last' = IF get_fernet(k.key) # "none"
                  THEN CipherOp("encrypt", plaintext, k.key, <<>>, get_fernet(k.key))
                  ELSE CipherOp("encrypt", plaintext, k.key, encrypt(k.key, plaintext), "none")
    /\ UNCHANGED <<store, registry, tui>>

Decrypt(ciphertext, fresh) ==
    /\ LET k == load_key(keyfile, fresh)
           r == decrypt(k.key, ciphertext)
       IN /\ keyfile' = k.keyfile
          /\ last' = IF get_fernet(k.key) # "none"
                     THEN CipherOp("decrypt", ciphertext, k.key, <<>>, get_fernet(k.key))
                     ELSE CipherOp("decrypt", ciphertext, k.key, r.value, r.raised)
    /\ UNCHANGED <<store, registry, tui>>

(***************************************************************************)
(* The connection service (connection_service.py).  Every operation runs   *)
(* in a process of its own: main() opens the store, calls the operation,   *)
(* and the operation closes the store.                                     *)
(***************************************************************************)
\* PROTOCOLS = ["ssh", "rdp", "vnc", "vmrc"]
PROTOCOLS == {s_ssh, s_rdp, s_vnc, s_vmrc}

\* input(...) or None
OrNone(cs) == IF cs = <<>> THEN None ELSE StrV(cs)

\* ConnectionService.is_ipv6
is_ipv6(cs) == Contains(cs, <<":">>)

s_key == <<"k","e","y">>
s_default_key == <<"~","/",".","s","s","h","/","i","d","_","r","s","a">>

\* The prompt loops of add_connection end with these answers (the strings
\* typed hold no blanks, so strip() changes nothing).
ServiceAddAccepts(rows, a) ==
    /\ ~IsDigitStr(a.alias)
    /\ ~alias_exists(rows, StrV(a.alias))
    /\ a.protocol \in PROTOCOLS
    /\ (a.protocol # s_vmrc => a.host # <<>>)
    /\ a.tag \notin PROTOCOLS

\* ConnectionService.add_connection: the record built from the answers
service_add_details(a) ==
    LET ssh == LowerOf(a.protocol) = s_ssh
        rdp == LowerOf(a.protocol) = s_rdp
        vmrc == LowerOf(a.protocol) = s_vmrc
        bykey == ssh /\ LowerOf(a.auth) = s_key
        host == IF rdp /\ is_ipv6(a.host) /\ Head(a.host) # "["
                   /\ a.host[Len(a.host)] # "]"
                THEN <<"[">> \o a.host \o <<"]">> ELSE a.host
    IN Details(StrV(a.alias), StrV(a.protocol), StrV(host),
               IF vmrc THEN None ELSE OrNone(a.port),
               IF vmrc THEN None ELSE OrNone(a.username),
               IF (ssh /\ ~bykey) \/ rdp THEN StrV(a.password) ELSE None,
               IF bykey THEN (IF a.key = <<>> THEN StrV(s_default_key)
                              ELSE StrV(a.key))
               ELSE None,
               IF rdp THEN OrNone(a.domain) ELSE None,
               IF rdp THEN OrNone(a.resolution) ELSE None,
               OrNone(a.tag),
               a.extras)

Answers(alias, protocol, host, port, username, auth, key, password, domain, resolution, tag, extras) ==
    [alias |-> alias, protocol |-> protocol, host |-> host, port |-> port,
     username |-> username, auth |-> auth, key |-> key, password |-> password,
     domain |-> domain, resolution |-> resolution, tag |-> tag,
     extras |-> extras]

A_db1 == Answers(s_db1, s_ssh, s_h2, s_22, s_u, <<>>, <<>>, s_pw, <<>>, <<>>,
                 s_prod, EmptyDict)
A_r3 == Answers(s_r3, s_rdp, s_ip6, <<>>, s_u, <<>>, <<>>, s_pw, <<>>, <<>>,
                <<>>, EmptyDict)
A_v5 == Answers(s_v5, s_vmrc, s_h1, <<>>, <<>>, <<>>, <<>>, <<>>, <<>>, <<>>,
                s_lab, EmptyDict)
A_2 == Answers(s_2, s_vnc, s_h1, <<>>, <<>>, <<>>, <<>>, <<>>, <<>>, <<>>,
               <<>>, EmptyDict)

\* an empty alias, a protocol name in capitals, a protocol the registry has
\* and PROTOCOLS has not
A_empty == Answers(<<>>, s_vnc, s_h1, <<>>, <<>>, <<>>, <<>>, <<>>, <<>>, <<>>, <<>>, EmptyDict)
A_SSH == Answers(s_zz, s_SSH, s_h1, <<>>, <<>>, <<>>, <<>>, s_pw, <<>>, <<>>, <<>>, EmptyDict)
A_http == Answers(s_web1, s_http, s_h1, <<>>, <<>>, <<>>, <<>>, <<>>, <<>>, <<>>, s_prod, EmptyDict)

PromptInputs == {A_db1, A_r3, A_v5, A_2, A_empty, A_SSH, A_http}

ServiceAdd(a) ==
    /\ NewRowid(store) <= MaxId
    /\ ServiceAddAccepts(store, a)
    /\ LET kw == service_add_details(a)
           r == add_connection(store, kw)
       IN /\ store' = r.rows
          /\ last' = [Op("service_add", kw.alias, kw, store, {}, r.error, "none")
                        EXCEPT !.out = IF r.raised = "none"
                                       THEN << <<"Connection added successfully.">> >>
                                       ELSE << <<"Error adding connection">> >>,
                               !.closed = TRUE]
    /\ UNCHANGED <<registry, keyfile, tui>>

\* ConnectionService.add_connection at a prompt again: an answer was turned
\* down, the loop printed why and asks once more; nothing is stored yet
ServiceAddReprompt(a) ==
    /\ ~ServiceAddAccepts(store, a)
    /\ last' = [Op("service_add_reprompt", StrV(a.alias), a, store, {}, "none", "none")
                  EXCEPT !.out =
                    IF IsDigitStr(a.alias) THEN << <<"Invalid alias. The alias cannot be only digits.">> >>
                    ELSE IF alias_exists(store, StrV(a.alias)) THEN << <<"This alias already exists.">> >>
                    ELSE IF a.protocol \notin PROTOCOLS THEN << <<"Invalid protocol.">> >>
                    ELSE IF a.protocol # s_vmrc /\ a.host = <<>> THEN << <<"Invalid hostname or IP address.">> >>
                    ELSE << <<"Invalid tag. Unable to use protocol as a tag.">> >>]
    /\ UNCHANGED <<store, registry, keyfile, tui>>

\* add_connection(**connection) binds: the three required parameters are
\* there and every key is a parameter
CallableAsAdd(connection) ==
    /\ NotNullColumns \subseteq DOMAIN connection
    /\ DOMAIN connection \subseteq Columns

\* the parameters of add_connection left out take their default, None
WithDefaults(connection) ==
    [c \in Columns |-> IF c \in DOMAIN connection THEN connection[c] ELSE None]

RECURSIVE import_loop(_, _, _, _)
\* ConnectionService.import_connections: the loop over the file's records
import_loop(rows, file, overwrite, out) ==
    IF file = <<>>
    THEN [rows |-> rows, raised |-> "none",
          out |-> Append(out, <<"Connections imported successfully">>)]
    ELSE LET connection == [c \in DOMAIN Head(file) \ {"id"} |-> Head(file)[c]]
             alias == IF "alias" \in DOMAIN connection THEN connection.alias
                      ELSE None
         IN IF alias_exists(rows, alias)
            THEN IF overwrite
                 THEN import_loop(update_connection(rows, alias, connection).rows,
                                  Tail(file), overwrite,
                                  Append(out, <<"overwritten", alias>>))
                 ELSE import_loop(rows, Tail(file), overwrite,
                                  Append(out, <<"skipped", alias>>))
            ELSE IF ~CallableAsAdd(connection)
                 THEN [rows |-> rows, raised |-> "TypeError",
                       out |-> Append(out,
                          <<"An error occurred while importing connections">>)]
                 ELSE import_loop(add_connection(rows, WithDefaults(connection)).rows,
                                  Tail(file), overwrite,
                                  Append(out, <<"added", alias>>))

\* the interchange files imported
J_db1 == [K_db1 EXCEPT !.tag = StrV(s_lab)]
J_zz == [alias |-> StrV(s_zz)]
\* a record exported elsewhere, still carrying the id it had there
J_r3 == [c \in Columns \cup {"id"} |-> IF c = "id" THEN IntV(MaxId) ELSE K_r3[c]]
\* a record whose protocol no handler is registered for
J_gopher == [K_web1 EXCEPT !.alias = StrV(s_zz), !.protocol = StrV(s_gopher)]
ImportFiles ==
    { <<K_web1>>, <<J_db1, K_2>>, <<J_zz, K_web1>>, <<K_web1, J_zz>>, <<J_r3>>, <<J_gopher>>,
      <<K_v5>> }

RECURSIVE Strip(_)
\* str.strip()
Strip(cs) ==
    IF cs = <<>> THEN cs
    ELSE IF Head(cs) = " " THEN Strip(Tail(cs))
    ELSE IF cs[Len(cs)] = " " THEN Strip(SubSeq(cs, 1, Len(cs) - 1))
    ELSE cs

\* overwrite_unless_declined: everything but "n" overwrites
overwrite_unless_declined(answer) == LowerOf(Strip(answer)) # <<"n">>

\* import_connections: choice == "y" after strip().lower()
overwrite_confirmed(answer) == LowerOf(Strip(answer)) = <<"y">>

\* what is typed at "Do you want to overwrite it? (y/n)"
OverwriteAnswers == { <<"y">>, <<" ", "Y">>, <<"n">>, <<>> }

\* the records of the file that a stored alias does not cover
NewInFile(rows, file) ==
    {i \in 1..Len(file) :
        ~("alias" \in DOMAIN file[i] /\ alias_exists(rows, file[i].alias))}

ServiceImport(file, answer) ==
    /\ NewRowid(store) + Cardinality(NewInFile(store, file)) - 1 <= MaxId
    /\ LET r == import_loop(store, file, overwrite_confirmed(answer), <<>>) IN
       /\ store' = r.rows
       /\ last' = [Op("service_import", None, [file |-> file, answer |-> answer],
                      store, {}, "none", "none")
                     EXCEPT !.out = r.out, !.closed = TRUE]
    /\ UNCHANGED <<registry, keyfile, tui>>

\* What get_connection_by_alias and get_connection_by_id return: the
\* ConnectionDetails dataclass built by _row_to_connection_details.
LookupResultType == "ConnectionDetails"

\* obj[key] works on a dict; the ConnectionDetails dataclass defines no
\* __getitem__, so subscripting it raises TypeError
Subscriptable(type) == type = "dict"

\* the if/elif chain of connect_to_alias_or_id
service_handler_for(protocol) ==
    LET p == LowerOf(protocol) IN
    IF p = s_ssh THEN "SSHHandler"
    ELSE IF p = s_rdp THEN "RDPHandler"
    ELSE IF p = s_vmrc THEN "VMRCHandler"
    ELSE IF p = s_vnc THEN "VNCHandler"
    ELSE "none"

\* the number of positional arguments the chain passes to each constructor
ServicePositionalArgs(cls) ==
    IF cls = "SSHHandler" THEN 4
    ELSE IF cls = "RDPHandler" THEN 5
    ELSE IF cls = "VNCHandler" THEN 3
    ELSE 1

\* the number of positional parameters each constructor takes after self
HandlerPositionalParams(cls) ==
    IF cls \in {"SSHHandler", "RDPHandler"} THEN 5
    ELSE IF cls = "VNCHandler" THEN 2
    ELSE 1

\* The constructor calls of the chain.  The arguments are passed by position:
\* SSHHandler(host_or_ip, username, password, ssh_key_path) binds them to the
\* parameters host_or_ip, port, username, password; VNCHandler(host_or_ip,
\* username, password) passes one positional argument more than the
\* constructor takes, a TypeError.
service_constructs(cls, d) ==
    LET Bound(port, username, password, ssh_key_path, domain, resolution) ==
            [cls |-> cls, protocol |-> LowerOf(d.protocol[2]),
             host_or_ip |-> d.host_or_ip, port |-> port, username |-> username,
             password |-> password, ssh_key_path |-> ssh_key_path,
             domain |-> domain, resolution |-> resolution]
    IN IF ServicePositionalArgs(cls) > HandlerPositionalParams(cls) THEN {}
       ELSE IF cls = "SSHHandler"
       THEN {Bound(d.username, d.password, d.ssh_key_path, None, None, None)}
       ELSE IF cls = "RDPHandler"
       THEN {Bound(None, d.username, d.password, None, d.domain, d.resolution)}
       ELSE {Bound(None, None, None, None, None, None)}

\* ConnectionService.connect_to_alias_or_id
connect_to_alias_or_id(rows, x) ==
    LET found == IF IsDigitStr(x) THEN get_connection_by_id(rows, DigitsValue(x))
                 ELSE get_connection_by_alias(rows, StrV(x))
        failed == [out |-> << <<"An error occurred while connecting">> >>,
                   launched |-> <<>>, constructed |-> {}]
    IN IF found = {} THEN failed
       ELSE IF ~Subscriptable(LookupResultType) THEN failed
       ELSE LET row == CHOOSE r \in found : TRUE
                cls == service_handler_for(row.protocol[2])
            IN IF cls = "none"
               THEN [out |-> << <<"Unsupported protocol", row.protocol>> >>,
                     launched |-> <<>>, constructed |-> {}]
               ELSE IF service_constructs(cls, row) = {}
               THEN failed
               ELSE [out |-> <<>>, launched |-> <<cls>>,
                     constructed |-> service_constructs(cls, row)]

ConnectInputs == {s_web1, s_db1, s_r3, s_1, s_2, s_zz}

ServiceConnect(x) ==
    /\ LET r == connect_to_alias_or_id(store, x) IN
          last' = ("constructed" :> r.constructed)
                  @@ [Op("service_connect", StrV(x), NoKw, store, {}, "none", "none")
                        EXCEPT !.out = r.out, !.launched = r.launched,
                               !.closed = TRUE]
    /\ UNCHANGED <<store, registry, keyfile, tui>>

\* the rows as a SELECT hands them over, in rowid order
RowsInIdOrder(rows) ==
    IF rows = {} THEN <<>>
    ELSE CHOOSE s \in [1..Cardinality(rows) -> rows] :
            \A i, j \in 1..Cardinality(rows) : i < j => s[i].id < s[j].id

\* edit_connection taking Enter as an empty answer: the fields that may be
\* empty are cleared instead of kept
edit_connection_clearing_on_enter(rows, x) ==
    LET found == get_connection(rows, StrV(x))
        cleared == [c \in Columns \ (NotNullColumns \cup {"tag", "extras"}) |-> None]
    IN IF found = {}
       THEN [rows |-> rows, out |-> << <<"No connection found", StrV(x)>> >>,
             closed |-> FALSE]
       ELSE [rows |-> update_connection(rows, StrV(x), cleared).rows,
             out |-> << <<"Connection updated successfully.">> >>,
             closed |-> TRUE]
\* ConnectionService.edit_connection.  The lookup returns a ConnectionDetails
\* object, connection['alias'] raises TypeError, and the outer try has no
\* finally; the handle is closed only behind the prompts.
edit_connection(rows, x) ==
    LET found == get_connection(rows, StrV(x)) IN
    IF found = {}
    THEN [rows |-> rows, out |-> << <<"No connection found", StrV(x)>> >>,
          closed |-> FALSE]
    ELSE IF ~Subscriptable(LookupResultType)
    THEN [rows |-> rows,
          out |-> << <<"An error occurred while editing connection">> >>,
          closed |-> FALSE]
    ELSE LET connection == CHOOSE d \in found : TRUE
             kept == {c \in DOMAIN connection \ {"tag"} : ~IsNone(connection[c])}
             r == update_connection(rows, StrV(x), [c \in kept |-> connection[c]])
         IN [rows |-> r.rows, out |-> << <<"Connection updated successfully.">> >>,
             closed |-> TRUE]

ServiceEdit(x) ==
    /\ LET r == edit_connection(store, x) IN
       /\ store' = r.rows
       /\ last' = [Op("service_edit", StrV(x), NoKw, store, {}, "none", "none")
                     EXCEPT !.out = r.out, !.closed = r.closed]
    /\ UNCHANGED <<registry, keyfile, tui>>

\* ConnectionService.delete_connection
ServiceDelete(x) ==
    /\ LET r == delete_connection(store, StrV(x)) IN
       /\ store' = r.rows
       /\ last' = [Op("service_delete", StrV(x), NoKw, store, {}, r.error, "none")
                     EXCEPT !.out = << <<"deleted successfully", StrV(x)>> >>,
                            !.closed = TRUE]
    /\ UNCHANGED <<registry, keyfile, tui>>

\* DatabaseConnection.get_connection_summary: ... ORDER BY id
get_connection_summary(rows) ==
    [i \in 1..Cardinality(rows) |-> Projection(RowsInIdOrder(rows)[i])]

\* ConnectionService.get_connections_summary: the rows of the table printed
get_connections_summary(rows, protocol_or_tag) ==
    LET connections == get_connection_summary(rows)
        ByProtocol(c) == c.protocol = protocol_or_tag
        ByTag(c) == c.tag = protocol_or_tag
    IN IF ~Truthy(protocol_or_tag) THEN connections
       ELSE IF protocol_or_tag[2] \in PROTOCOLS
       THEN SelectSeq(connections, ByProtocol)
       ELSE SelectSeq(connections, ByTag)

ListInputs == {None, StrV(s_ssh), StrV(s_http), StrV(s_prod), StrV(s_zz)}

ServiceList(protocol_or_tag) ==
    /\ LET t == get_connections_summary(store, protocol_or_tag) IN
          last' = [Op("service_list", protocol_or_tag, NoKw, store, {}, "none", "none")
                     EXCEPT !.out = IF t = <<>> THEN << <<"No connections found.">> >>
                                    ELSE << <<"table", t>> >>,
                            !.closed = TRUE]
    /\ UNCHANGED <<store, registry, keyfile, tui>>

\* ConnectionService.search_connections
ServiceSearch(s) ==
    /\ LET results == search_connections(store, s) IN
          last' = [Op("service_search", StrV(s), NoKw, store, results, "none", "none")
                     EXCEPT !.out = IF results = {}
                                    THEN << <<"No connections found matching the search criteria.">> >>
                                    ELSE << <<"Search Results", results>> >>,
                            !.closed = TRUE]
    /\ UNCHANGED <<store, registry, keyfile, tui>>

\* DatabaseConnection.get_all_connections: the rows as dicts, values as stored
get_all_connections(rows) == RowsInIdOrder(rows)

\* ConnectionService.export_connections: the text written to the file.  Each
\* row loses its id; extras is the str held by the column and is written as
\* a JSON string.
export_connections(rows) ==
    LET connections == get_all_connections(rows) IN
    JsonDumps([i \in 1..Len(connections) |->
                 [c \in DOMAIN connections[i] \ {"id"} |-> connections[i][c]]])

ServiceExport ==
    /\ last' = [Op("service_export", None, NoKw, store, {}, "none", "none")
                  EXCEPT !.out = << <<"file", export_connections(store)>>,
                                    <<"Connections exported successfully">> >>,
                         !.closed = TRUE]
    /\ UNCHANGED <<store, registry, keyfile, tui>>

(***************************************************************************)
(* The protocol handlers (connection_handler.py).  A handler object is the *)
(* record of the attributes its constructor sets.  A command is a sequence *)
(* of arguments; an argument is a sequence of parts, a part being literal  *)
(* text <<"lit", text>> or the value of an attribute                       *)
(* <<"field", name, value>>.  subprocess.run gets either the argument      *)
(* vector (shell = FALSE) or one string for /bin/sh -c (shell = TRUE).     *)
(***************************************************************************)
Lit(text) == <<"lit", text>>
Field(h, name) == <<"field", name, h[name]>>

\* ConnectionHandler.__init__: every attribute a subclass does not pass is None
BaseHandler(cls, protocol, host_or_ip, port, username, password) ==
    [cls |-> cls, protocol |-> protocol, host_or_ip |-> host_or_ip,
     port |-> port, username |-> username, password |-> password,
     ssh_key_path |-> None, domain |-> None, resolution |-> None]

\* SSHHandler.__init__
SSHHandler(host_or_ip, port, username, password, ssh_key_path) ==
    [BaseHandler("SSHHandler", s_ssh, host_or_ip, port, username, password)
        EXCEPT !.ssh_key_path = ssh_key_path]

\* RDPHandler.__init__
RDPHandler(host_or_ip, username, password, domain, resolution) ==
    [BaseHandler("RDPHandler", s_rdp, host_or_ip, None, username, password)
        EXCEPT !.domain = domain, !.resolution = resolution]

\* VMRCHandler.__init__
VMRCHandler(host_or_ip) ==
    BaseHandler("VMRCHandler", s_vmrc, host_or_ip, None, None, None)

\* the port VNCHandler takes when none is given
VNC_DEFAULT_PORT == 5901

\* VNCHandler.__init__: username and password fall into **kwargs and are dropped
VNCHandler_without_default(host_or_ip, port) ==
    BaseHandler("VNCHandler", s_vnc, host_or_ip, port, None, None)
VNCHandler(host_or_ip, port) ==
    BaseHandler("VNCHandler", s_vnc, host_or_ip,
                IF IsNone(port) THEN IntV(VNC_DEFAULT_PORT) ELSE port, None, None)

\* HTTPHandler.__init__
HTTPHandler(host_or_ip) ==
    BaseHandler("HTTPHandler", s_http, host_or_ip, None, None, None)

\* str.startswith
StartsWith(cs, pre) == Len(cs) >= Len(pre) /\ SubSeq(cs, 1, Len(pre)) = pre

s_http_scheme == <<"h","t","t","p",":","/","/">>
s_https_scheme == <<"h","t","t","p","s",":","/","/">>

\* SSHHandler.connect: the argument vector
ssh_command(h, sshpass_installed) ==
    (IF sshpass_installed /\ ~IsNone(h.password)
     THEN << <<Lit("sshpass")>>, <<Lit("-p")>>, <<Field(h, "password")>> >>
     ELSE <<>>)
    \o << <<Lit("ssh")>>, <<Lit("-o")>>, <<Lit("StrictHostKeyChecking=no")>> >>
    \o (IF Truthy(h.ssh_key_path)
        THEN << <<Lit("-i")>>, <<Field(h, "ssh_key_path")>> >> ELSE <<>>)
    \o (IF Truthy(h.port) THEN << <<Lit("-p "), Field(h, "port")>> >> ELSE <<>>)
    \o (IF Truthy(h.username)
        THEN << <<Field(h, "username"), Lit("@"), Field(h, "host_or_ip")>> >>
        ELSE << <<Field(h, "host_or_ip")>> >>)

RECURSIVE JoinWithSpaces(_)
\* " ".join(command)
JoinWithSpaces(command) ==
    IF command = <<>> THEN <<>>
    ELSE IF Len(command) = 1 THEN Head(command)
    ELSE Head(command) \o <<Lit(" ")>> \o JoinWithSpaces(Tail(command))

\* RDPHandler.connect: the list joined into one string
rdp_command(h) ==
    JoinWithSpaces(
        << <<Lit("xfreerdp")>>,
           <<Lit("/v:"), Lit("\""), Field(h, "host_or_ip"), Lit("\"")>> >>
        \o (IF Truthy(h.username) THEN << <<Lit("/u:"), Field(h, "username")>> >>
            ELSE <<>>)
        \o (IF Truthy(h.password) THEN << <<Lit("/p:"), Field(h, "password")>> >>
            ELSE <<>>)
        \o (IF Truthy(h.domain) THEN << <<Lit("/d:"), Field(h, "domain")>> >>
            ELSE << <<Lit("/d:WORKGROUP")>> >>)
        \o (IF Truthy(h.resolution)
            THEN << <<Lit("/size:"), Field(h, "resolution")>> >> ELSE <<>>)
        \o << <<Lit("/cert:ignore")>> >>)

\* VMRCHandler.connect: open "<host>"
vmrc_command(h) == <<Lit("open \""), Field(h, "host_or_ip"), Lit("\"")>>

\* VNCHandler.connect: open "vnc://<host>:<port>"
vnc_command(h) ==
    <<Lit("open \""), Lit("vnc://"), Field(h, "host_or_ip"), Lit(":"),
      Field(h, "port"), Lit("\"")>>

\* HTTPHandler.connect, the test of the scheme: a host that starts with
\* neither scheme gets "http://" put in front
http_url_prefixing_always(host) == s_http_scheme \o host
http_url(host) ==
    IF StartsWith(host, s_http_scheme) \/ StartsWith(host, s_https_scheme)
    THEN host
    ELSE s_http_scheme \o host

\* The handler object when connect() has run: HTTPHandler.connect assigns the
\* prefixed host to self.host_or_ip, the other handlers assign nothing.
after_connect(h) ==
    IF h.cls = "HTTPHandler"
    THEN [h EXCEPT !.host_or_ip = StrV(http_url(h.host_or_ip[2]))]
    ELSE h

\* HTTPHandler.connect: open "<self.host_or_ip>", read after the assignment
http_command(h) ==
    <<Lit("open \""), Field(after_connect(h), "host_or_ip"), Lit("\"")>>

\* What the handler hands to subprocess.run
launch_of(h, sshpass_installed) ==
    IF h.cls = "SSHHandler"
    THEN [shell |-> FALSE, command |-> ssh_command(h, sshpass_installed)]
    ELSE IF h.cls = "RDPHandler"
    THEN [shell |-> TRUE, command |-> <<rdp_command(h)>>]
    ELSE IF h.cls = "VMRCHandler"
    THEN [shell |-> TRUE, command |-> <<vmrc_command(h)>>]
    ELSE IF h.cls = "VNCHandler"
    THEN [shell |-> TRUE, command |-> <<vnc_command(h)>>]
    ELSE [shell |-> TRUE, command |-> <<http_command(h)>>]

\* How the external client ends: exit status 0, a non-zero exit status, or
\* its program is not there to be started.
ClientOutcomes == {"exit0", "nonzero", "missing"}

\* subprocess.run(..., check=True): without a shell a program that is not
\* there raises FileNotFoundError; with shell=True the shell starts, reports
\* the missing program and exits 127, a non-zero status.
subprocess_run(launch, client) ==
    IF client = "exit0" THEN "none"
    ELSE IF client = "missing" /\ ~launch.shell THEN "FileNotFoundError"
    ELSE "CalledProcessError"

\* connect(): what reaches the caller.  SSHHandler catches CalledProcessError
\* and only logs it; the others re-raise it as ConnectionHandlerException.
connect(h, sshpass_installed, client) ==
    LET launch == launch_of(h, sshpass_installed)
        ran == subprocess_run(launch, client)
    IN [launch |-> launch,
        handler |-> after_connect(h),
        raised |-> IF ran = "CalledProcessError"
                   THEN (IF h.cls = "SSHHandler" THEN "none"
                         ELSE "ConnectionHandlerException")
                   ELSE ran]

s_brk6 == <<"[",":",":","1","]">>
s_url == <<"h","t","t","p",":","/","/","h","1">>
s_dom == <<"d">>

Hosts == {StrV(s_h1), StrV(s_ip6), StrV(s_brk6), StrV(s_url)}
MaybePort == {None, StrV(s_22)}
s_5900 == <<"5","9","0","0">>
VncPorts == {None, StrV(s_5900)}
MaybeUser == {None, StrV(s_u)}
MaybePassword == {None, StrV(s_pw)}
MaybeKey == {None, StrV(s_default_key)}
MaybeDomain == {None, StrV(s_dom)}

\* the handler objects connected
HandlerInputs ==
    {SSHHandler(h, p, u, w, k) :
        h \in Hosts, p \in MaybePort, u \in MaybeUser, w \in MaybePassword,
        k \in MaybeKey}
    \cup {RDPHandler(h, u, w, d, None) :
        h \in Hosts, u \in MaybeUser, w \in MaybePassword, d \in MaybeDomain}
    \cup {VMRCHandler(h) : h \in Hosts}
    \cup {VNCHandler(h, p) : h \in Hosts, p \in VncPorts}
    \cup {HTTPHandler(h) : h \in Hosts}

\* how many times connect() is called on one handler object
MaxCalls == 2

\* a handler is constructed and connect() is called on it
HandlerConnect(h, sshpass_installed, client) ==
    /\ LET r == connect(h, sshpass_installed, client) IN
          last' = [op |-> "connect", handler |-> h, client |-> client,
                   sshpass |-> sshpass_installed, launch |-> r.launch,
                   raised |-> r.raised, constructed |-> h,
                   after |-> r.handler, calls |-> 1]
    /\ UNCHANGED <<store, registry, keyfile, tui>>

\* connect() is called again on the handler object of the last call
HandlerReconnect(sshpass_installed, client) ==
    /\ last.op = "connect"
    /\ last.calls < MaxCalls
    /\ LET r == connect(last.after, sshpass_installed, client) IN
          last' = [op |-> "connect", handler |-> last.after, client |-> client,
                   sshpass |-> sshpass_installed, launch |-> r.launch,
                   raised |-> r.raised, constructed |-> last.constructed,
                   after |-> r.handler, calls |-> last.calls + 1]
    /\ UNCHANGED <<store, registry, keyfile, tui>>

(***************************************************************************)
(* The interactive browser (tui.py).  The browser object is the record of  *)
(* the attributes of ConnectionManagerTUI, with two more fields for where  *)
(* run_tui stands: phase is "constructed", "running" (run() waits in       *)
(* getch) or "exited", and returned is what run_tui gave back.  A key is   *)
(* the character typed or the name of a special key.                       *)
(***************************************************************************)
\* ConnectionManagerTUI.__init__
TuiInit ==
    [connections |-> <<>>, filtered_connections |-> <<>>,
     current_selection |-> 0, search_query |-> <<>>, status_message |-> "",
     show_help |-> FALSE, search_mode |-> FALSE, search_input |-> <<>>,
     connection_requested |-> None, phase |-> "constructed", returned |-> None]

\* The condition of the comprehension in apply_search_filter, its operands
\* taken left to right: conn.get(field, '') gives None for a column that
\* holds NULL, and None has no lower().
conn_matches(conn, query_lower) ==
    LET fields == <<"alias", "host_or_ip", "protocol", "tag">>
        Holds(i) == IF IsNone(conn[fields[i]]) THEN "AttributeError"
                    ELSE IF Contains(LowerOf(conn[fields[i]][2]), query_lower)
                    THEN "yes" ELSE "no"
        decided == {i \in 1..Len(fields) : Holds(i) # "no"}
    IN IF decided = {} THEN "no"
       ELSE Holds(CHOOSE i \in decided : \A j \in decided : i <= j)

\* ConnectionManagerTUI.apply_search_filter.  An error in the comprehension
\* leaves filtered_connections and current_selection as they were.
apply_search_filter(t) ==
    LET query_lower == LowerOf(t.search_query)
        Kept(conn) == conn_matches(conn, query_lower) = "yes"
        raises == /\ t.search_query # <<>>
                  /\ \E i \in 1..Len(t.connections) :
                        conn_matches(t.connections[i], query_lower) = "AttributeError"
        filtered == IF t.search_query = <<>> THEN t.connections
                    ELSE SelectSeq(t.connections, Kept)
        n == Len(filtered)
    IN IF raises THEN [tui |-> t, raised |-> "AttributeError"]
       ELSE [tui |-> [t EXCEPT !.filtered_connections = filtered,
                               !.current_selection =
                                   IF @ >= n THEN (IF n - 1 > 0 THEN n - 1 ELSE 0)
                                   ELSE @],
             raised |-> "none"]

\* ConnectionManagerTUI.refresh_connections
refresh_connections(t, rows) ==
    LET loaded == [t EXCEPT !.connections = get_all_connections(rows)]
        r == apply_search_filter(loaded)
    IN IF r.raised = "none"
       THEN [r.tui EXCEPT !.status_message = "Loaded connections"]
       ELSE [loaded EXCEPT !.status_message = "Error loading connections",
                           !.connections = <<>>,
                           !.filtered_connections = <<>>]

\* the keys with a code from 32 to 126 that are typed
PrintableKeys == {"a", "e", "d", "r", "c", "h", "q", "/", "W"}

\* every key typed
BrowserKeys ==
    PrintableKeys
    \cup {"KEY_UP", "KEY_DOWN", "KEY_HOME", "KEY_END", "ENTER", "ESC",
          "CTRL_U", "BACKSPACE", "CTRL_C"}

\* ConnectionManagerTUI.handle_search_key.  What is assigned before
\* apply_search_filter raises stays assigned.
handle_search_key_left_by_clear(t, key) ==
    LET assigned ==
            IF key = "ESC"
            THEN [t EXCEPT !.search_mode = FALSE, !.search_input = <<>>,
                           !.search_query = <<>>]
            ELSE IF key = "CTRL_U"
            THEN [t EXCEPT !.search_mode = FALSE, !.search_input = <<>>,
                           !.search_query = <<>>]
            ELSE IF key = "ENTER"
            THEN [t EXCEPT !.search_mode = FALSE, !.search_query = t.search_input]
            ELSE IF key = "BACKSPACE"
            THEN [t EXCEPT !.search_input = SubSeq(@, 1, Len(@) - 1),
                           !.search_query = SubSeq(t.search_input, 1,
                                                   Len(t.search_input) - 1)]
            ELSE IF key \in PrintableKeys
            THEN [t EXCEPT !.search_input = Append(@, key),
                           !.search_query = Append(t.search_input, key)]
            ELSE t
        filtered == apply_search_filter(assigned)
    IN IF key \notin {"ESC", "CTRL_U", "ENTER", "BACKSPACE"} \cup PrintableKeys
       THEN [tui |-> t, raised |-> "none"]
       ELSE IF filtered.raised = "none" THEN filtered
       ELSE [tui |-> assigned, raised |-> filtered.raised]
handle_search_key(t, key) ==
    LET assigned ==
            IF key = "ESC"
            THEN [t EXCEPT !.search_mode = FALSE, !.search_input = <<>>,
                           !.search_query = <<>>]
            ELSE IF key = "CTRL_U"
            THEN [t EXCEPT !.search_input = <<>>, !.search_query = <<>>]
            ELSE IF key = "ENTER"
            THEN [t EXCEPT !.search_mode = FALSE, !.search_query = t.search_input]
            ELSE IF key = "BACKSPACE"
            THEN [t EXCEPT !.search_input = SubSeq(@, 1, Len(@) - 1),
                           !.search_query = SubSeq(t.search_input, 1,
                                                   Len(t.search_input) - 1)]
            ELSE IF key \in PrintableKeys
            THEN [t EXCEPT !.search_input = Append(@, key),
                           !.search_query = Append(t.search_input, key)]
            ELSE t
        filtered == apply_search_filter(assigned)
    IN IF key \notin {"ESC", "CTRL_U", "ENTER", "BACKSPACE"} \cup PrintableKeys
       THEN [tui |-> t, raised |-> "none"]
       ELSE IF filtered.raised = "none" THEN filtered
       ELSE [tui |-> assigned, raised |-> filtered.raised]

\* the guard that opens connect_to_selected, edit_selected_connection and
\* delete_selected_connection
no_selection(t) ==
    \/ t.filtered_connections = <<>>
    \/ t.current_selection >= Len(t.filtered_connections)

\* self.filtered_connections[self.current_selection]: a negative index counts
\* from the end of the list
selected_connection(t) ==
    IF t.current_selection < 0
    THEN t.filtered_connections[Len(t.filtered_connections) + t.current_selection + 1]
    ELSE t.filtered_connections[t.current_selection + 1]

\* conn.get('alias') or str(conn.get('id'))
alias_or_id(conn) ==
    IF Truthy(conn.alias) THEN conn.alias ELSE StrV(IntToChars(conn.id))

\* ConnectionManagerTUI.connect_to_selected
connect_to_selected(t) ==
    IF no_selection(t) THEN [t EXCEPT !.status_message = "No connection selected"]
    ELSE [t EXCEPT !.connection_requested = alias_or_id(selected_connection(t)),
                   !.status_message = "Exiting TUI to connect"]

\* ConnectionManagerTUI.add_connection: _tui_add_connection reads
\* self.service.prompter, an attribute ConnectionService does not have; the
\* AttributeError is caught and shown.
tui_add_connection(t) == [t EXCEPT !.status_message = "Error adding connection"]

\* ConnectionService.__init__ assigns self.database and nothing else: the
\* service object that the browser holds has no prompter attribute
ServiceHasPrompter_assigned == TRUE
ServiceHasPrompter == FALSE

\* ConnectionPrompter.prompt_connection_fields(existing=d): `typed` is
\* answered at the alias prompt, Enter at every other prompt and "done" at
\* the extras.  A prompt that turns Enter down asks again without end, and
\* the call does not return.
prompt_connection_fields(d, typed) ==
    LET alias == IF typed # <<>> THEN StrV(typed) ELSE d.alias
        p == d.protocol[2]
        ssh == LowerOf(p) = s_ssh
        rdp == LowerOf(p) = s_rdp
        vmrc == LowerOf(p) = s_vmrc
        bykey == ssh /\ Truthy(d.ssh_key_path)
        h == d.host_or_ip[2]
        host == IF rdp /\ h # <<>> /\ is_ipv6(h) /\ Head(h) # "[" /\ h[Len(h)] # "]"
                THEN StrV(<<"[">> \o h \o <<"]">>) ELSE d.host_or_ip
    IN [returned |-> /\ Truthy(alias) /\ ~IsDigitStr(alias[2])
                     /\ p \in DOMAIN InitialRegistry
                     /\ (vmrc \/ h # <<>>)
                     /\ ~(IsStr(d.tag) /\ d.tag[2] \in DOMAIN InitialRegistry),
        details |-> Details(alias, d.protocol, host,
                            IF vmrc THEN None ELSE d.port,
                            IF vmrc THEN None ELSE d.username,
                            IF (ssh /\ ~bykey) \/ rdp THEN d.password ELSE None,
                            IF bykey THEN d.ssh_key_path ELSE None,
                            IF rdp THEN d.domain ELSE None,
                            IF rdp THEN d.resolution ELSE None,
                            d.tag,
                            IF Truthy(d.extras) THEN d.extras ELSE EmptyDict)]

\* _tui_edit_connection, its last step: update_connection with the alias of
\* the prompted details as the key and asdict(connection_details) as the
\* columns; prompts that never return are left by Ctrl-C only.
update_prompted(rows, asked) ==
    IF ~asked.returned THEN [rows |-> rows, interrupted |-> TRUE]
    ELSE [rows |-> update_connection(rows, asked.details.alias, asked.details).rows,
          interrupted |-> FALSE]

\* ConnectionManagerTUI._tui_edit_connection behind self.service.prompter:
\* the prompts over the record found for x, then the update
tui_edit_connection(rows, x, typed) ==
    update_prompted(rows,
                    prompt_connection_fields(
                        CHOOSE d \in get_connection(rows, x) : TRUE, typed))

\* edit_selected_connection once _tui_edit_connection has returned: the
\* snapshot is loaded again
edited(t, done) ==
    IF done.interrupted THEN [tui |-> t, rows |-> done.rows, interrupted |-> TRUE]
    ELSE [tui |-> [refresh_connections(t, done.rows)
                     EXCEPT !.status_message = "Connection updated successfully"],
          rows |-> done.rows, interrupted |-> FALSE]

\* ConnectionManagerTUI.edit_selected_connection: _tui_edit_connection
\* returns when the record is not found; when it is found it reads
\* self.service.prompter, and the AttributeError is caught and shown.
edit_selected_connection(t, rows, typed) ==
    IF no_selection(t)
    THEN [tui |-> [t EXCEPT !.status_message = "No connection selected"],
          rows |-> rows, interrupted |-> FALSE]
    ELSE IF get_connection(rows, alias_or_id(selected_connection(t))) = {}
    THEN edited(t, [rows |-> rows, interrupted |-> FALSE])
    ELSE IF ~ServiceHasPrompter
    THEN [tui |-> [t EXCEPT !.status_message = "Error editing connection"],
          rows |-> rows, interrupted |-> FALSE]
    ELSE edited(t, tui_edit_connection(rows, alias_or_id(selected_connection(t)),
                                       typed))

\* what is typed at "Enter a unique alias for the connection [<alias>]: "
EditAliases == { <<>>, s_web1, s_zz }

\* what is typed at "Delete connection '<alias>'? (y/N): "
DeleteAnswers == { <<"Y">>, <<"n">>, <<>> }

\* delete_selected_connection deleting unless the answer is n
delete_selected_connection_unless_declined(t, rows, confirm) ==
    IF no_selection(t)
    THEN [tui |-> [t EXCEPT !.status_message = "No connection selected"],
          rows |-> rows]
    ELSE IF LowerOf(Strip(confirm)) # <<"n">>
    THEN LET left == delete_connection(rows, alias_or_id(selected_connection(t))).rows
         IN [tui |-> [refresh_connections(t, left)
                        EXCEPT !.status_message = "Connection deleted successfully"],
             rows |-> left]
    ELSE [tui |-> [t EXCEPT !.status_message = "Delete cancelled"], rows |-> rows]
\* ConnectionManagerTUI.delete_selected_connection
delete_selected_connection(t, rows, confirm) ==
    IF no_selection(t)
    THEN [tui |-> [t EXCEPT !.status_message = "No connection selected"],
          rows |-> rows]
    ELSE IF LowerOf(Strip(confirm)) = <<"y">>
    THEN LET left == delete_connection(rows, alias_or_id(selected_connection(t))).rows
         IN [tui |-> [refresh_connections(t, left)
                        EXCEPT !.status_message = "Connection deleted successfully"],
             rows |-> left]
    ELSE [tui |-> [t EXCEPT !.status_message = "Delete cancelled"], rows |-> rows]

\* ConnectionManagerTUI.handle_key, the keys of the list view
handle_browse_key(t, rows, key, confirm) ==
    LET n == Len(t.filtered_connections)
        cur == t.current_selection
        acted ==
            IF key \in {"KEY_UP", "k"}
            THEN [tui |-> [t EXCEPT !.current_selection =
                                        IF cur - 1 > 0 THEN cur - 1 ELSE 0],
                  rows |-> rows]
            ELSE IF key \in {"KEY_DOWN", "j"}
            THEN [tui |-> [t EXCEPT !.current_selection =
                                        IF n - 1 < cur + 1 THEN n - 1 ELSE cur + 1],
                  rows |-> rows]
            ELSE IF key \in {"KEY_HOME", "g"}
            THEN [tui |-> [t EXCEPT !.current_selection = 0], rows |-> rows]
            ELSE IF key \in {"KEY_END", "G"}
            THEN [tui |-> [t EXCEPT !.current_selection =
                                        IF n - 1 > 0 THEN n - 1 ELSE 0],
                  rows |-> rows]
            ELSE IF key = "ENTER"
            THEN [tui |-> connect_to_selected(t), rows |-> rows]
            ELSE IF key = "a"
            THEN [tui |-> tui_add_connection(t), rows |-> rows]
            ELSE IF key = "e"
            THEN edit_selected_connection(t, rows, confirm)
            ELSE IF key = "d"
            THEN delete_selected_connection(t, rows, confirm)
            ELSE IF key = "r"
            THEN [tui |-> refresh_connections(t, rows), rows |-> rows]
            ELSE IF key = "/"
            THEN [tui |-> [t EXCEPT !.search_mode = TRUE, !.search_input = <<>>],
                  rows |-> rows]
            ELSE IF key = "c" /\ t.search_query # <<>>
            THEN [tui |-> [apply_search_filter(
                               [t EXCEPT !.search_query = <<>>,
                                         !.search_input = <<>>]).tui
                             EXCEPT !.status_message = "Search cleared"],
                  rows |-> rows]
            ELSE IF key \in {"h", "?"}
            THEN [tui |-> [t EXCEPT !.show_help = TRUE], rows |-> rows]
            ELSE [tui |-> t, rows |-> rows]
        exit == \/ key = "ENTER" /\ Truthy(acted.tui.connection_requested)
                \/ key \in {"q", "CTRL_C"}
                \/ key = "e" /\ acted.interrupted
    IN [tui |-> IF exit \/ key \in {"/", "h", "?"} THEN acted.tui
                ELSE [acted.tui EXCEPT !.status_message = ""],
        rows |-> acted.rows, exit |-> exit, raised |-> "none"]

\* handle_key with h and ? opening the help from the search line as well
handle_key_help_from_search(t, rows, key, confirm) ==
    IF t.show_help
    THEN [tui |-> [t EXCEPT !.show_help = FALSE], rows |-> rows, exit |-> FALSE,
          raised |-> "none"]
    ELSE IF key \in {"h", "?"}
    THEN [tui |-> [t EXCEPT !.show_help = TRUE], rows |-> rows, exit |-> FALSE,
          raised |-> "none"]
    ELSE IF t.search_mode
    THEN [tui |-> handle_search_key(t, key).tui, rows |-> rows, exit |-> FALSE,
          raised |-> handle_search_key(t, key).raised]
    ELSE handle_browse_key(t, rows, key, confirm)

\* ConnectionManagerTUI.handle_key
handle_key_ignoring_help(t, rows, key, confirm) ==
    IF t.search_mode
    THEN [tui |-> handle_search_key(t, key).tui, rows |-> rows, exit |-> FALSE,
          raised |-> handle_search_key(t, key).raised]
    ELSE handle_browse_key(t, rows, key, confirm)
handle_key(t, rows, key, confirm) ==
    IF t.show_help
    THEN [tui |-> [t EXCEPT !.show_help = FALSE], rows |-> rows, exit |-> FALSE,
          raised |-> "none"]
    ELSE IF t.search_mode
    THEN [tui |-> handle_search_key(t, key).tui, rows |-> rows, exit |-> FALSE,
          raised |-> handle_search_key(t, key).raised]
    ELSE handle_browse_key(t, rows, key, confirm)

\* run_tui: what is returned when curses.wrapper(tui.run) has returned
run_tui_returning_selection(t) ==
    IF no_selection(t) THEN None ELSE alias_or_id(selected_connection(t))
run_tui(t) == t.connection_requested

\* ConnectionManagerTUI.run, one turn of the loop with the outcome r of
\* handle_key: an Exception is shown and the loop goes on, True breaks it.
run_ended_by_errors(t, r) ==
    IF r.raised # "none" \/ r.exit
    THEN [r.tui EXCEPT !.phase = "exited", !.returned = run_tui(r.tui)]
    ELSE r.tui
run(t, r) ==
    IF r.raised # "none" THEN [r.tui EXCEPT !.status_message = "Error"]
    ELSE IF r.exit
    THEN [r.tui EXCEPT !.phase = "exited", !.returned = run_tui(r.tui)]
    ELSE r.tui

\* how long a query is typed
MaxQuery == 1

\* the records stored before the browser is started: one with a tag, one
\* with neither a tag nor an alias
K_anon == [K_2 EXCEPT !.alias = StrV(<<>>)]
BrowserRecords == {K_web1, K_anon}

\* a command run before the browser is started stores a record
BrowserSetup(kw) ==
    /\ tui.phase = "constructed"
    /\ NewRowid(store) <= MaxId
    /\ LET r == add_connection(store, kw) IN
       /\ store' = r.rows
       /\ last' = [op |-> "setup", key |-> "", before |-> tui,
                   store_before |-> store, raised |-> r.raised]
    /\ UNCHANGED <<registry, keyfile, tui>>

\* run_tui up to the first getch: run() loads the snapshot
RunTui ==
    /\ tui.phase = "constructed"
    /\ tui' = [refresh_connections(tui, store) EXCEPT !.phase = "running"]
    /\ last' = [op |-> "run_tui", key |-> "", before |-> tui,
                store_before |-> store, raised |-> "none"]
    /\ UNCHANGED <<store, registry, keyfile>>

\* getch returns a key and handle_key handles it
KeyEvent(key, confirm) ==
    /\ tui.phase = "running"
    /\ (tui.search_mode /\ ~tui.show_help /\ key \in PrintableKeys)
          => Len(tui.search_input) < MaxQuery
    /\ LET r == handle_key(tui, store, key, confirm) IN
       /\ tui' = run(tui, r)
       /\ store' = r.rows
       /\ last' = [op |-> "key", key |-> key, before |-> tui,
                   store_before |-> store, raised |-> r.raised,
                   typed |-> confirm]
    /\ UNCHANGED <<registry, keyfile>>

\* the interrupt signal while run() waits in getch: KeyboardInterrupt breaks
\* the loop
Interrupt ==
    /\ tui.phase = "running"
    /\ tui' = [tui EXCEPT !.phase = "exited", !.returned = run_tui(tui)]
    /\ last' = [op |-> "interrupt", key |-> "", before |-> tui,
                store_before |-> store, raised |-> "KeyboardInterrupt"]
    /\ UNCHANGED <<store, registry, keyfile>>

(***************************************************************************)
(* Specifications.                                                         *)
(***************************************************************************)
Init ==
    /\ store = {}
    /\ registry = InitialRegistry
    /\ keyfile = NoKeyFile
    /\ tui = TuiInit
    /\ last = Op("init", None, NoKw, {}, {}, "none", "none")

NextStore ==
    \/ \E kw \in AddInputs : StoreAdd(kw)
    \/ \E x \in Identifiers : StoreDelete(x)
    \/ \E x \in Identifiers, kw \in UpdateInputs : StoreUpdate(x, kw)
    \/ \E x \in Identifiers : StoreGet(x)
    \/ \E s \in SearchInputs : StoreSearch(s)

NextRegistry ==
    \/ \E n \in RegisterNames, cls \in RegisterClasses : Register(n, cls)
    \/ \E n \in ResolveNames : Factory(n)

NextService ==
    \/ \E a \in PromptInputs : ServiceAdd(a)
    \/ \E a \in PromptInputs : ServiceAddReprompt(a)
    \/ \E f \in ImportFiles, answer \in OverwriteAnswers : ServiceImport(f, answer)
    \/ \E x \in ConnectInputs : ServiceConnect(x)
    \/ \E x \in ConnectInputs : ServiceEdit(x)
    \/ \E x \in ConnectInputs : ServiceDelete(x)
    \/ \E f \in ListInputs : ServiceList(f)
    \/ \E s \in SearchInputs : ServiceSearch(s)
    \/ ServiceExport

NextHandler ==
    \/ \E h \in HandlerInputs : \E sshpass_installed \in BOOLEAN :
          \E client \in ClientOutcomes : HandlerConnect(h, sshpass_installed, client)
    \/ \E sshpass_installed \in BOOLEAN : \E client \in ClientOutcomes :
          HandlerReconnect(sshpass_installed, client)

NextCipher ==
    \/ \E fresh \in Keys : GenerateKey(fresh)
    \/ \E fresh \in Keys : LoadKeyInterrupted(fresh)
    \/ \E s \in Plaintexts, fresh \in Keys : Encrypt(s, fresh)
    \/ \E c \in Ciphertexts, fresh \in Keys : Decrypt(c, fresh)

NextBrowser ==
    \/ \E kw \in BrowserRecords : BrowserSetup(kw)
    \/ RunTui
    \/ \E key \in BrowserKeys :
          \E confirm \in (IF key = "d" THEN DeleteAnswers
                          ELSE IF key = "e" THEN EditAliases ELSE {<<>>}) :
             KeyEvent(key, confirm)
    \/ Interrupt

Next ==
    NextStore \/ NextRegistry \/ NextService \/ NextHandler \/ NextCipher
    \/ NextBrowser

\* the store's operations called directly
SpecStore == Init /\ [][NextStore]_vars
\* the registry's operations
SpecRegistry == Init /\ [][NextRegistry]_vars
\* the service's commands
SpecService == Init /\ [][NextService]_vars
\* the handlers' connect
SpecHandler == Init /\ [][NextHandler]_vars
\* the cipher and its key file
SpecCipher == Init /\ [][NextCipher]_vars
SpecBrowser == Init /\ [][NextBrowser]_vars
Spec == Init /\ [][Next]_vars

(***************************************************************************)
(* Properties stated by the specification document.                        *)
(***************************************************************************)
\* What the specification calls a valid record: a non-empty alias that is
\* not all digits, a registered protocol, and a host.
ValidRecord(kw) ==
    /\ IsStr(kw.alias) /\ kw.alias[2] # <<>> /\ ~IsDigitStr(kw.alias[2])
    /\ IsStr(kw.protocol) /\ LowerOf(kw.protocol[2]) \in DOMAIN InitialRegistry
    /\ IsStr(kw.host_or_ip)

\* The record has x as its alias, or x is the decimal numeral of its id.
HasAliasOrId(row, x) ==
    \/ row.alias = x
    \/ IsStr(x) /\ IsDigitStr(x[2]) /\ DigitsValue(x[2]) = row.id

\* s occurs in the column's text without regard to letter case
OccursIn(s, v) == IsStr(v) /\ Contains(LowerOf(v[2]), LowerOf(s))

\* C1: after add of a valid record whose alias was not stored, get(alias)
\* returns a record equal to the one passed to add in every field.
C1_AddThenGetReturnsInput ==
    (/\ last.op = "add"
     /\ ValidRecord(last.kw)
     /\ ~\E r \in last.before : r.alias = last.kw.alias)
    => get_connection(store, last.kw.alias) = {last.kw}

\* C2: add of a record whose alias is already stored raises an error to its
\* caller and leaves the store as it was.
C2_DuplicateAddIsReported ==
    (last.op = "add" /\ \E r \in last.before : r.alias = last.kw.alias)
    => (last.raised # "none" /\ store = last.before)

\* C3: the password of every stored record that has one is a token produced
\* by the secret cipher.
C3_StoredPasswordsAreCiphertext ==
    \A r \in store : ~IsNone(r.password) => IsCiphertext(r.password)

\* C4: update keeps, on every record, the value of every column that the
\* call does not name, and neither adds nor removes a record.
C4_UpdateKeepsUnnamedColumns ==
    last.op = "update" =>
        /\ RowIds(store) = RowIds(last.before)
        /\ Cardinality(store) = Cardinality(last.before)
        /\ \A r \in last.before : \A q \in store :
              q.id = r.id =>
                 \A c \in (Columns \cup {"id"}) \ DOMAIN last.kw : q[c] = r[c]

\* C4 witness: an update of some columns went through and changed a record
C4_Witness ==
    /\ last.op = "update" /\ last.error = "none"
    /\ last.kw = U_tag
    /\ store # last.before

\* C5: delete(x) for an x that is no stored record's alias or id raises
\* nothing and leaves the store as it was.
C5_DeleteOfAbsentChangesNothing ==
    (last.op = "delete" /\ ~\E r \in last.before : HasAliasOrId(r, last.x))
    => (store = last.before /\ last.raised = "none" /\ last.error = "none")

\* C6: get(x) returns the record whose id is x when x is all digits, the
\* record whose alias is x otherwise, and None exactly when no stored record
\* has x as its alias or id.
C6_GetResolvesAliasOrId ==
    last.op = "get" =>
        LET byId == {r \in last.before :
                        IsDigitStr(last.x[2]) /\ r.id = DigitsValue(last.x[2])}
            byAlias == {r \in last.before : r.alias = last.x}
        IN /\ (IsDigitStr(last.x[2]) /\ byId # {})
                 => last.result = {row_to_connection_details(r) : r \in byId}
           /\ (~IsDigitStr(last.x[2]) /\ byAlias # {})
                 => last.result = {row_to_connection_details(r) : r \in byAlias}
           /\ (last.result = {}) <=> (byId = {} /\ byAlias = {})

\* C7: search(s) returns exactly the projections of the stored records in
\* which s occurs, without regard to case, in alias, host_or_ip, username,
\* protocol or tag.
C7_SearchIsSubstringMatch ==
    last.op = "search" =>
        last.result =
            {Projection(r) : r \in {q \in last.before :
                \/ OccursIn(last.x[2], q.alias)
                \/ OccursIn(last.x[2], q.host_or_ip)
                \/ OccursIn(last.x[2], q.username)
                \/ OccursIn(last.x[2], q.protocol)
                \/ OccursIn(last.x[2], q.tag)}}

\* C8: an add, update or delete that hit an error leaves every stored record
\* as it was.
C8_FailedWriteAppliesNothing ==
    (last.op \in {"add", "update", "delete"} /\ last.error # "none")
    => store = last.before

\* C8 witness: an update of two matching rows failed on the alias constraint
C8_Witness ==
    /\ last.op = "update"
    /\ last.error = "UNIQUE constraint failed"
    /\ Cardinality(AliasOrIdMatches(last.before, last.x)) = 2

\* C9: after register(name, cls) the factory resolves name in any letter
\* case to cls; for a name no registration matches it raises the
\* unsupported-protocol error and constructs no handler.
C9_RegistryResolvesAnyCase ==
    /\ last.op = "register" =>
          \A v \in ResolveNames :
             LowerOf(v) = LowerOf(last.x[2]) =>
                connection_handler_factory(registry, v).handler = last.result
    /\ (/\ last.op = "factory"
        /\ \A n \in DOMAIN registry : LowerOf(n) # LowerOf(last.x[2]))
       => (/\ last.raised = "ValueError: Unsupported protocol"
           /\ last.result = {})
    /\ (/\ last.op = "factory"
        /\ \E n \in DOMAIN registry : LowerOf(n) = LowerOf(last.x[2]))
       => (last.raised = "none" /\ last.result # {})

\* C9 witness: a name registered later was resolved in another letter case
C9_Witness ==
    /\ last.op = "factory"
    /\ last.x = StrV(s_TELNET)
    /\ last.result = {"HTTPHandler"}

\* C10: connect on a stored record whose protocol is in the registry invokes
\* the connect of the registered handler exactly once; a record whose
\* protocol is not in the registry is reported as unsupported.
C10_ConnectDispatchesThroughRegistry ==
    last.op = "service_connect" =>
        \A r \in last.before :
            HasAliasOrId(r, last.x) =>
                IF handler_class(registry, r.protocol[2]) # {}
                THEN last.launched = <<registry[LowerOf(r.protocol[2])]>>
                ELSE /\ last.launched = <<>>
                     /\ last.out = << <<"Unsupported protocol", r.protocol>> >>

\* the attributes whose values stand in the string handed to the shell
ShellData(launch) ==
    {launch.command[1][i][2] :
        i \in {j \in 1..Len(launch.command[1]) : launch.command[1][j][1] = "field"}}

\* the host as a target of an RDP launch: a bare IPv6 literal in brackets
Bracketed(cs) ==
    IF Contains(cs, <<":">>) /\ ~(Head(cs) = "[" /\ cs[Len(cs)] = "]")
    THEN <<"[">> \o cs \o <<"]">>
    ELSE cs

\* C11: when the external client exits with a non-zero status or cannot be
\* started, connect() of every handler raises ConnectionHandlerException.
C11_FailedLaunchRaises ==
    (last.op = "connect" /\ last.client # "exit0")
    => last.raised = "ConnectionHandlerException"

\* C13: only the URI-opening handlers (VNC, VMRC, HTTP) launch through a
\* shell, and the string they hand to it holds the host as its only data
\* of the record.
C13_NoRecordDataInShellString ==
    (last.op = "connect" /\ last.launch.shell)
    => /\ last.handler.cls \in {"VNCHandler", "VMRCHandler", "HTTPHandler"}
       /\ ShellData(last.launch) \subseteq {"host_or_ip"}

\* C20: the host an RDP launch targets is the record's host, put in
\* brackets when it is a bare IPv6 literal and unchanged when it already is
\* bracketed.
C20_RdpTargetIsBracketed ==
    (last.op = "connect" /\ last.handler.cls = "RDPHandler")
    => \A i \in 1..Len(last.launch.command[1]) :
          LET part == last.launch.command[1][i] IN
          (part[1] = "field" /\ part[2] = "host_or_ip")
          => part[3] = StrV(Bracketed(last.handler.host_or_ip[2]))

\* the commands of the service
ServiceOps ==
    {"service_add", "service_edit", "service_delete", "service_list",
     "service_search", "service_connect", "service_import", "service_export"}

\* C12: when a command of the service has returned, on success, on a handled
\* error and on an unexpected exception alike, the store handle is closed.
C12_ServiceClosesStore ==
    last.op \in ServiceOps => last.closed

\* C14: the alias of every stored record is non-empty and is not made of
\* digits only.
C14_StoredAliasesAreValid ==
    \A r \in store :
        IsStr(r.alias) /\ r.alias[2] # <<>> /\ ~IsDigitStr(r.alias[2])

\* answers the specification lets through: a fresh alias that is not empty
\* and not all digits, a protocol registered under any letter case, a host
AcceptedBySpec(rows, a) ==
    /\ a.alias # <<>> /\ ~IsDigitStr(a.alias)
    /\ ~\E r \in rows : r.alias = StrV(a.alias)
    /\ handler_class(registry, a.protocol) # {}
    /\ a.host # <<>>

\* C15: the protocol of every stored record resolves in the handler
\* registry, and a prompted protocol that equals a registered name up to
\* letter case is accepted, not asked for again.
C15_StoredProtocolsAreRegistered ==
    /\ \A r \in store :
          IsStr(r.protocol) /\ handler_class(registry, r.protocol[2]) # {}
    /\ last.op = "service_add_reprompt" => ~AcceptedBySpec(last.before, last.kw)

\* the user said yes to the overwrite question
Affirmative(answer) == LowerOf(Strip(answer)) \in { <<"y">>, <<"y","e","s">> }

\* C16: an import changes or removes a stored record only when the user
\* answered the overwrite question affirmatively; otherwise every record
\* stored before the import is stored unchanged after it.
C16_DeclinedOverwriteKeepsRecord ==
    (last.op = "service_import" /\ ~Affirmative(last.kw.answer))
    => \A r \in last.before : r \in store

\* C16 witness: an import met a stored alias with other field values in the
\* file, the overwrite was declined and the record was skipped
C16_Witness ==
    /\ last.op = "service_import"
    /\ last.kw.answer = <<"n">>
    /\ \E i \in 1..Len(last.kw.file) : \E r \in last.before :
          /\ "tag" \in DOMAIN last.kw.file[i]
          /\ r.alias = last.kw.file[i].alias
          /\ r.tag # last.kw.file[i].tag
          /\ \E j \in 1..Len(last.out) : last.out[j] = <<"skipped", r.alias>>

\* C17: after an import whose overwrite was accepted, get(alias) returns,
\* for every alias of the file that was stored before, the file's value in
\* every field the file supplies, and the record has the id it had.
C17_OverwriteReplacesSuppliedFields ==
    (last.op = "service_import" /\ Affirmative(last.kw.answer))
    => \A i \in 1..Len(last.kw.file) :
          LET rec == last.kw.file[i] IN
          \A r \in last.before :
             ("alias" \in DOMAIN rec /\ r.alias = rec.alias)
             => /\ \E q \in store : q.alias = rec.alias /\ q.id = r.id
                /\ \A d \in get_connection(store, rec.alias) :
                      \A c \in DOMAIN rec \ {"id"} : d[c] = rec[c]

\* C18: export writes the extras of every record as a nested object, and
\* importing the exported file into an empty store gives, for every alias, a
\* record whose extras mapping equals the one of the exported record.
C18_ExtrasRoundTripThroughFile ==
    last.op = "service_export" =>
        LET file == JsonLoads(last.out[1][2])
            again == import_loop({}, file, FALSE, <<>>).rows
        IN /\ \A i \in 1..Len(file) : IsDict(file[i].extras)
           /\ \A r \in last.before :
                 \E q \in again :
                    /\ q.alias = r.alias
                    /\ row_to_connection_details(q).extras
                          = row_to_connection_details(r).extras

LaunchedField(launch, name) ==
    {launch.command[1][i][3] :
        i \in {j \in 1..Len(launch.command[1]) :
                  /\ launch.command[1][j][1] = "field"
                  /\ launch.command[1][j][2] = name}}

C22_HttpPrefixedExactlyOnce ==
    (last.op = "connect" /\ last.handler.cls = "HTTPHandler")
    => LET host == last.constructed.host_or_ip[2] IN
       LaunchedField(last.launch, "host_or_ip")
         = {StrV(IF StartsWith(host, s_http_scheme)
                    \/ StartsWith(host, s_https_scheme)
                 THEN host
                 ELSE <<"h","t","t","p",":","/","/">> \o host)}

C22_Witness ==
    /\ last.op = "connect"
    /\ last.handler.cls = "HTTPHandler"
    /\ last.calls = 2
    /\ ~StartsWith(last.constructed.host_or_ip[2], s_http_scheme)
    /\ LaunchedField(last.launch, "host_or_ip")
         = {StrV(s_http_scheme \o last.constructed.host_or_ip[2])}

\* the rows a list command showed, none when it printed that none were found
ShownRows(out) == IF out[1][1] = "table" THEN out[1][2] ELSE <<>>

\* C23: list with the name of a registered protocol (http among them) shows
\* exactly the records of that protocol, list with any other argument shows
\* exactly the records whose tag equals it, list without an argument shows
\* every record, and the rows come in ascending order of id.
C23_ListFiltersByProtocolOrTag ==
    last.op = "service_list"
    => LET shown == ShownRows(last.out)
           Wanted(r) ==
               IF IsNone(last.x) THEN TRUE
               ELSE IF last.x[2] \in DOMAIN InitialRegistry
               THEN r.protocol = last.x
               ELSE r.tag = last.x
       IN /\ {shown[i] : i \in 1..Len(shown)}
               = {Projection(r) : r \in {q \in last.before : Wanted(q)}}
          /\ \A i, j \in 1..Len(shown) : i < j => shown[i].id < shown[j].id

\* the state of the browser, as handle_key tells the three apart
Mode(t) ==
    IF t.show_help THEN "Helping"
    ELSE IF t.search_mode THEN "Searching"
    ELSE "Browsing"

\* a key was handled while the browser was in the given state
KeyHandledIn(mode) == last.op = "key" /\ Mode(last.before) = mode

\* C24: once the browser runs, whatever keys were typed, the cursor lies
\* within [0, len(filtered) - 1] when the filtered list has records and is 0
\* when it has none; it is never negative.
C24_CursorWithinFilteredList ==
    tui.phase # "constructed"
    => IF tui.filtered_connections = <<>> THEN tui.current_selection = 0
       ELSE tui.current_selection \in 0..(Len(tui.filtered_connections) - 1)

\* C25: Enter in Browsing, the filtered list holding records, exits the
\* browser and returns the alias (the id when there is no alias) of the
\* record at the cursor, the highlighted one; the filtered list being empty,
\* Enter neither exits nor sets a pending connection.
C25_EnterReturnsHighlightedRecord ==
    (KeyHandledIn("Browsing") /\ last.key = "ENTER")
    => LET filtered == last.before.filtered_connections
           cursor == last.before.current_selection
       IN IF filtered = <<>>
          THEN tui.phase = "running" /\ IsNone(tui.connection_requested)
          ELSE /\ tui.phase = "exited"
               /\ cursor \in 0..(Len(filtered) - 1)
               /\ tui.returned = (IF filtered[cursor + 1].alias[2] # <<>>
                                  THEN filtered[cursor + 1].alias
                                  ELSE StrV(IntToChars(filtered[cursor + 1].id)))

\* C26: a browser that exits on q, on Ctrl-C or on the interrupt signal
\* returns nothing; a pending connection exists, and a value is returned,
\* only when the key event that ended the session was Enter in Browsing.
C26_PendingConnectionOnlyFromEnter ==
    /\ (/\ tui.phase = "exited"
        /\ \/ last.op = "interrupt"
           \/ last.op = "key" /\ last.key \in {"q", "CTRL_C"})
       => IsNone(tui.returned)
    /\ (~IsNone(tui.connection_requested) \/ ~IsNone(tui.returned))
       => /\ tui.phase = "exited"
          /\ KeyHandledIn("Browsing")
          /\ last.key = "ENTER"

C26_Witness ==
    /\ tui.phase = "exited"
    /\ last.op = "key" /\ last.key = "q"
    /\ ~no_selection(last.before)
    /\ IsNone(tui.returned)

\* C27: after each printable keystroke and each backspace in Searching the
\* filtered list is exactly the sub-list of the snapshot whose alias, host,
\* protocol or tag contains the query without regard to case, the whole
\* snapshot when the query is empty, records without a tag included.
C27_FilteredIsMatchingSublist ==
    (KeyHandledIn("Searching") /\ last.key \in PrintableKeys \cup {"BACKSPACE"})
    => LET Wanted(conn) ==
               \/ tui.search_query = <<>>
               \/ \E f \in {"alias", "host_or_ip", "protocol", "tag"} :
                     OccursIn(tui.search_query, conn[f])
       IN tui.filtered_connections = SelectSeq(tui.connections, Wanted)

\* C28: in Searching, Enter leads to Browsing with the typed text as the
\* applied query, Escape leads to Browsing with an empty query and the whole
\* snapshot, Ctrl-U empties the query and stays in Searching, and no other key
\* leaves Searching.
C28_SearchingLeftOnlyByEnterOrEscape ==
    KeyHandledIn("Searching")
    => /\ tui.phase = "running"
       /\ last.key = "ENTER"
          => Mode(tui) = "Browsing" /\ tui.search_query = last.before.search_input
       /\ last.key = "ESC"
          => /\ Mode(tui) = "Browsing"
             /\ tui.search_query = <<>>
             /\ tui.filtered_connections = tui.connections
       /\ last.key = "CTRL_U"
          => tui.search_query = <<>> /\ tui.search_input = <<>>
       /\ last.key \notin {"ENTER", "ESC"} => Mode(tui) = "Searching"

C28_Witness ==
    /\ KeyHandledIn("Searching")
    /\ last.key = "ENTER"
    /\ last.before.search_input # <<>>
    /\ Mode(tui) = "Browsing"
    /\ tui.search_query = last.before.search_input

\* C29: in Helping any key, q, Enter, d and / among them, returns to Browsing
\* and does nothing else: cursor, query, filtered list, snapshot, store and
\* pending connection stay as they were and the browser does not exit.
C29_AnyKeyOnlyClosesHelp ==
    KeyHandledIn("Helping")
    => /\ tui = [last.before EXCEPT !.show_help = FALSE]
       /\ Mode(tui) = "Browsing"
       /\ tui.phase = "running"
       /\ store = last.store_before

C29_Witness ==
    /\ KeyHandledIn("Helping")
    /\ last.key = "d"
    /\ ~no_selection(last.before)
    /\ Mode(tui) = "Browsing"
    /\ store = last.store_before

\* C30: an error raised while a key is handled does not end the session; the
\* loop ends only on q or Ctrl-C in Browsing, on the interrupt signal, or on
\* Enter with a record selected; after add, edit or delete, failed or not,
\* the browser is back in its list view.
C30_ErrorsDoNotEndTheSession ==
    /\ (last.op = "key" /\ last.raised # "none")
       => tui.phase = "running" /\ Mode(tui) \in {"Browsing", "Searching"}
    /\ tui.phase = "exited"
       => \/ last.op = "interrupt"
          \/ KeyHandledIn("Browsing") /\ last.key \in {"q", "CTRL_C"}
          \/ /\ KeyHandledIn("Browsing")
             /\ last.key = "ENTER"
             /\ ~no_selection(last.before)
    /\ (KeyHandledIn("Browsing") /\ last.key \in {"a", "e", "d"})
       => tui.phase = "running" /\ Mode(tui) = "Browsing"

C30_Witness ==
    /\ last.op = "key"
    /\ last.raised # "none"
    /\ tui.phase = "running"
    /\ tui.status_message = "Error"

\* C31: in every state of the store an identifier names at most one record:
\* none is the alias of one record and the id of another, and one delete or
\* update call removes or changes at most one record.
C31_IdentifierNamesOneRecord ==
    /\ \A x \in Identifiers : \A r1, r2 \in store :
          (r1.alias = x /\ IsDigitStr(x[2]) /\ DigitsValue(x[2]) = r2.id)
          => r1 = r2
    /\ last.op \in {"delete", "update"}
       => Cardinality(last.before \ store) <= 1

\* C32: the handler that the service's connect constructs for a stored
\* record of a protocol it knows holds the record's username as username,
\* its password as password, its key path as key path and, for ssh, its
\* port as port.
C32_FieldsReachSameNamedParameters ==
    last.op = "service_connect"
    => \A r \in last.before :
          (HasAliasOrId(r, last.x) /\ service_handler_for(r.protocol[2]) # "none")
          => \E h \in last.constructed :
                /\ h.host_or_ip = r.host_or_ip
                /\ h.cls \in {"SSHHandler", "RDPHandler"}
                   => h.username = r.username /\ h.password = r.password
                /\ h.cls = "SSHHandler"
                   => /\ h.ssh_key_path = r.ssh_key_path
                      /\ h.port = row_to_connection_details(r).port

\* C33: key-file initialisation is atomic: at every point of first-use key
\* generation, an interruption between creating the file and finishing the
\* write included, the key file does not exist or holds the complete key, so
\* no later load reads a partial key as the key.
C33_KeyFileAbsentOrComplete ==
    /\ keyfile = NoKeyFile \/ keyfile \in Keys
    /\ last.op \in {"encrypt", "decrypt"} => last.key \in Keys

\* C34: the service's import is transactional as a whole: when it aborts with
\* an error part-way through the file, the store holds exactly the records it
\* held before the import started.
C34_AbortedImportLeavesStore ==
    (/\ last.op = "service_import"
     /\ \E i \in 1..Len(last.out) :
           last.out[i] = <<"An error occurred while importing connections">>)
    => store = last.before

C37_QueryFollowsInputWhileSearching ==
    (tui.phase = "running" /\ Mode(tui) = "Searching")
    => tui.search_query = tui.search_input

\* C38: the service reports a record as added or imported only if the store
\* persisted it: after "Connection added successfully." the added record is
\* stored, and after an import every alias reported as added is the alias of
\* a stored record.
C38_SuccessReportedOnlyIfPersisted ==
    /\ (/\ last.op = "service_add"
        /\ last.out = << <<"Connection added successfully.">> >>)
       => \E r \in store \ last.before : r.alias = last.kw.alias
    /\ last.op = "service_import"
       => \A i \in 1..Len(last.out) :
             last.out[i][1] = "added"
             => \E r \in store : r.alias = last.out[i][2]

\* C39: d in the browser removes a record only after the answer y: after any
\* other answer the store, the snapshot and the filtered list are as they
\* were, with an empty filtered list d changes none of them, and d never adds
\* or alters a record.
C39_DeleteOnlyAfterYes ==
    (KeyHandledIn("Browsing") /\ last.key = "d")
    => /\ store \subseteq last.store_before
       /\ (\/ LowerOf(Strip(last.typed)) # <<"y">>
           \/ last.before.filtered_connections = <<>>)
          => /\ store = last.store_before
             /\ tui.connections = last.before.connections
             /\ tui.filtered_connections = last.before.filtered_connections

\* C39 witness: d was pressed on a selected record and Enter alone was the
\* answer
C39_Witness ==
    /\ KeyHandledIn("Browsing") /\ last.key = "d"
    /\ ~no_selection(last.before)
    /\ last.typed = <<>>
    /\ Cardinality(store) = 2

\* C40: the browser is in exactly one of Browsing, Searching and Helping: the
\* search flag and the help flag are never set together, and the help opens
\* only from Browsing, on h or ?.
C40_OneModeAtATime ==
    /\ ~(tui.show_help /\ tui.search_mode)
    /\ (last.op = "key" /\ tui.show_help)
       => /\ Mode(last.before) = "Browsing"
          /\ last.key \in {"h", "?"}

\* C40 witness: h was typed in Searching, where it is a character of the
\* query
C40_Witness ==
    /\ KeyHandledIn("Searching") /\ last.key = "h"
    /\ Mode(tui) = "Searching"
    /\ tui.search_input = <<"h">>

====
